---------------------------- MODULE Spec2Model ----------------------------
(***************************************************************************)
(* Word <-> identifier codec of WordIDGenerator                            *)
(* (src/Old Project/9.1 Шифратор.py).                                      *)
(*                                                                         *)
(* A Python string is modelled as a sequence of one-character strings, so  *)
(* that slicing, startswith/endswith, split and join are computed and not  *)
(* assumed.  None is the empty sequence <<>> and a present optional value  *)
(* x is <<x>>.  A call that raises is a record [exc |-> name, val |-> <<>>]*)
(* and a call that returns v is [exc |-> "", val |-> v].                   *)
(***************************************************************************)
EXTENDS Integers, Sequences, FiniteSets, TLC

VARIABLES
    word,             \* the word given to the generator
    delimiter,        \* delimiter argument of word_to_id / id_to_word
    include_length,   \* include_length argument
    include_grammar,  \* include_grammar argument
    pc,               \* position of the session / of the function being stepped
    affix_info,       \* result of _detect_grammar_affixes(word)
    id_string,        \* result of word_to_id
    reconstructed,    \* reconstructed word returned by id_to_word
    grammar_info,     \* decoded grammar returned by id_to_word / _code_to_grammar_affixes
    exc,              \* name of the exception the last call raised, "" if none
    stats,            \* self.stats
    rem,              \* local `word` of _detect_grammar_affixes (the remaining word)
    found_modality,   \* local `found_modality` of _detect_grammar_affixes
    syllable,         \* argument of encode_syllable
    syl_code,         \* result of encode_syllable
    syl_back,         \* result of decode_syllable
    tag,              \* result of _grammar_affixes_to_code
    b32_number,       \* argument of _to_base32
    b32_string,       \* result of _to_base32, argument of _from_base32
    b32_back,         \* result of _from_base32
    chr_arg,          \* argument of _char_to_code
    chr_code,         \* result of _char_to_code, argument of _code_to_char
    chr_back,         \* result of _code_to_char
    word_count,       \* argument of get_collision_probability
    collision_prob,   \* result of get_collision_probability
    calls,            \* frames of the word_to_id calls running in threads
    split             \* result of word_to_syllables

vars == <<word, delimiter, include_length, include_grammar, pc, affix_info,
          id_string, reconstructed, grammar_info, exc, stats, rem,
          found_modality, syllable, syl_code, syl_back, tag, b32_number,
          b32_string, b32_back, chr_arg, chr_code, chr_back, word_count,
          collision_prob, calls, split>>

\* the arguments and results of the helper functions that are called on their own
scalars == <<b32_number, b32_string, b32_back, chr_arg, chr_code, chr_back,
             word_count, collision_prob, calls, split>>

-----------------------------------------------------------------------------
(* Python built-ins on strings and lists *)

None == <<>>
Some(x) == <<x>>

Return(v) == [exc |-> "", val |-> v]
Raise(e) == [exc |-> e, val |-> <<>>]

Min(S) == CHOOSE i \in S : \A j \in S : i <= j

\* x in seq
In(x, seq) == \E i \in DOMAIN seq : seq[i] = x

\* seq.index(x), 0-based; the caller guarantees In(x, seq)
Index(seq, x) == Min({i \in DOMAIN seq : seq[i] = x}) - 1

\* s.startswith(p)
startswith(s, p) == Len(p) <= Len(s) /\ SubSeq(s, 1, Len(p)) = p

\* s.endswith(p)
endswith(s, p) == Len(p) <= Len(s) /\ SubSeq(s, Len(s) - Len(p) + 1, Len(s)) = p

\* s[n:]
DropFirst(s, n) == SubSeq(s, n + 1, Len(s))

\* s[:-n] for n > 0
DropLast(s, n) == SubSeq(s, 1, Len(s) - n)

\* s[-n:]
TakeLast(s, n) == IF Len(s) <= n THEN s ELSE SubSeq(s, Len(s) - n + 1, Len(s))

\* s[a:b] with 0 <= a <= b, clipped to the string as Python does
Slice(s, a, b) == SubSeq(s, a + 1, IF b <= Len(s) THEN b ELSE Len(s))

\* reversed(seq)
Reversed(seq) == [i \in 1..Len(seq) |-> seq[Len(seq) + 1 - i]]

\* str.zfill(width)
RECURSIVE zfill(_, _)
zfill(s, width) == IF Len(s) >= width THEN s ELSE zfill(<<"0">> \o s, width)

\* ''.join(parts)
RECURSIVE Concat(_)
Concat(parts) == IF parts = <<>> THEN <<>> ELSE Head(parts) \o Concat(Tail(parts))

\* sep.join(parts)
RECURSIVE Join(_, _)
Join(sep, parts) ==
    IF parts = <<>> THEN <<>>
    ELSE IF Len(parts) = 1 THEN parts[1]
    ELSE parts[1] \o sep \o Join(sep, Tail(parts))

\* positions (1-based) at which sep occurs in s
Occurrences(s, sep) ==
    {i \in 1..(Len(s) - Len(sep) + 1) : SubSeq(s, i, i + Len(sep) - 1) = sep}

\* sep in s, for a non-empty sep
Contains(s, sep) == Occurrences(s, sep) # {}

\* s.split(sep), for a non-empty sep
RECURSIVE Split(_, _)
Split(s, sep) ==
    IF ~Contains(s, sep) THEN <<s>>
    ELSE LET i == Min(Occurrences(s, sep))
         IN  <<SubSeq(s, 1, i - 1)>> \o Split(DropFirst(s, i - 1 + Len(sep)), sep)

\* sorted(seq, key=...): Python's sort is stable.  keys[i] is the key of
\* seq[i]; reverse=True is an ascending stable sort on the negated key.
RECURSIVE InsertSorted(_, _)
InsertSorted(sorted, x) ==
    IF sorted = <<>> THEN <<x>>
    ELSE IF x.key < Head(sorted).key THEN <<x>> \o sorted
    ELSE <<Head(sorted)>> \o InsertSorted(Tail(sorted), x)

RECURSIVE SortPairs(_)
SortPairs(pairs) ==
    IF pairs = <<>> THEN <<>>
    ELSE InsertSorted(SortPairs(SubSeq(pairs, 1, Len(pairs) - 1)), pairs[Len(pairs)])

SortedByKey(seq, keys) ==
    LET pairs == [i \in DOMAIN seq |-> [key |-> keys[i], item |-> seq[i]]]
        done  == SortPairs(pairs)
    IN  [i \in DOMAIN done |-> done[i].item]

\* mask | bit, for bit a power of two
BitOr(mask, bit) == IF (mask \div bit) % 2 = 1 THEN mask ELSE mask + bit

\* mask & bit, for bit a power of two
BitAnd(mask, bit) == IF (mask \div bit) % 2 = 1 THEN bit ELSE 0

-----------------------------------------------------------------------------
(* WordIDGenerator.__init__ *)

consonants == <<"b", "c", "d", "f", "g", "h", "j", "k", "l", "m",
                "n", "p", "q", "r", "s", "t", "v", "w", "x", "z">>

vowels == <<"a", "e", "i", "o", "u", "y">>

base32_alphabet == <<"0", "1", "2", "3", "4", "5", "6", "7", "8", "9",
                     "A", "B", "C", "D", "E", "F", "G", "H", "I", "J",
                     "K", "L", "M", "N", "O", "P", "Q", "R", "S", "T",
                     "U", "V">>

\* dict keys of grammar_suffixes, in insertion order
grammar_suffix_keys == <<"participle", "gerund", "adjective", "verb", "adverb">>

\* labels are transliterated
grammar_suffixes ==
    [k \in {grammar_suffix_keys[i] : i \in DOMAIN grammar_suffix_keys} |->
        CASE k = "participle" -> [suffix |-> <<"y", "e", "p", "i">>, label |-> "Prichastie"]
          [] k = "gerund"     -> [suffix |-> <<"y", "e", "m", "u">>, label |-> "Deeprichastie"]
          [] k = "adjective"  -> [suffix |-> <<"p", "i">>, label |-> "Prilagatelnoe"]
          [] k = "verb"       -> [suffix |-> <<"y", "e">>, label |-> "Glagol"]
          [] k = "adverb"     -> [suffix |-> <<"m", "u">>, label |-> "Narechie"]]

\* self.grammar_suffixes.values()
grammar_suffixes_values ==
    [i \in DOMAIN grammar_suffix_keys |-> grammar_suffixes[grammar_suffix_keys[i]]]

\* self.grammar_prefixes.values(), in insertion order
grammar_prefixes_values ==
    << [prefix |-> <<"h", "a">>, label |-> "Proshedshee vremya", priority |-> 1],
       [prefix |-> <<"a", "k", "e">>, label |-> "Nastoyashchee vremya", priority |-> 1],
       [prefix |-> <<"k", "a">>, label |-> "Budushchee vremya", priority |-> 1],
       [prefix |-> <<"t", "o">>, label |-> "Absolyutizm", priority |-> 2],
       [prefix |-> <<"t", "e">>, label |-> "Neopredelyonnost", priority |-> 3],
       [prefix |-> <<"t", "a">>, label |-> "Otsutstvie", priority |-> 4] >>

InitStats == [words_processed |-> 0, syllables_processed |-> 0, grammar_processed |-> 0]

-----------------------------------------------------------------------------
(* Symbol codec *)

RECURSIVE Base32Digits(_)
Base32Digits(n) ==
    IF n = 0 THEN <<>>
    ELSE Base32Digits(n \div 32) \o <<base32_alphabet[(n % 32) + 1]>>

\* _to_base32 without the zfill(2)
_to_base32_unpadded(number) ==
    IF number = 0 THEN <<base32_alphabet[1]>>
    ELSE Base32Digits(number)

_to_base32(number) ==
    IF number = 0 THEN <<base32_alphabet[1]>>
    ELSE zfill(Base32Digits(number), 2)

\* base32_alphabet.index(char) raises ValueError for a char outside the alphabet
Raises_from_base32(base32_str) ==
    \E i \in DOMAIN base32_str : ~In(base32_str[i], base32_alphabet)

RECURSIVE FromBase32Loop(_, _)
FromBase32Loop(base32_str, result) ==
    IF base32_str = <<>> THEN result
    ELSE FromBase32Loop(Tail(base32_str),
                        result * 32 + Index(base32_alphabet, Head(base32_str)))

\* _from_base32 with the position of a symbol counted from 1
RECURSIVE FromBase32LoopFromOne(_, _)
FromBase32LoopFromOne(base32_str, result) ==
    IF base32_str = <<>> THEN result
    ELSE FromBase32LoopFromOne(Tail(base32_str),
                               result * 32 + Index(base32_alphabet, Head(base32_str)) + 1)

_from_base32_from_one(base32_str) == FromBase32LoopFromOne(base32_str, 0)

_from_base32(base32_str) == FromBase32Loop(base32_str, 0)

\* _char_to_code with the vowels numbered from 20, onto the last consonant
_char_to_code_vowels_from_20(char) ==
    IF In(char, consonants) THEN Index(consonants, char) + 1
    ELSE IF In(char, vowels) THEN 20 + Index(vowels, char)
    ELSE 0

_char_to_code(char) ==
    IF In(char, consonants) THEN Index(consonants, char) + 1
    ELSE IF In(char, vowels) THEN 21 + Index(vowels, char)
    ELSE 0

_code_to_char(code) ==
    IF 1 <= code /\ code <= 20 THEN consonants[code]
    ELSE IF 21 <= code /\ code <= 26
         THEN (IF code - 21 < Len(vowels) THEN vowels[code - 21 + 1] ELSE "?")
    ELSE "?"

-----------------------------------------------------------------------------
(* Syllable codec *)

RECURSIVE SyllableCodeLoop(_, _)
SyllableCodeLoop(chars, code) ==
    IF chars = <<>> THEN code
    ELSE SyllableCodeLoop(Tail(chars), code * 32 + _char_to_code(Head(chars)))

\* the integer encode_syllable hands to _to_base32
SyllableNumber(syl) == SyllableCodeLoop(syl, 0)

encode_syllable(syl) ==
    IF syl = <<>> THEN <<"0", "0">>
    ELSE _to_base32(SyllableNumber(syl))

RECURSIVE DecodeSyllableLoop(_, _)
DecodeSyllableLoop(num, chars) ==
    IF num > 0
    THEN DecodeSyllableLoop(num \div 32,
            IF num % 32 > 0 THEN Append(chars, _code_to_char(num % 32)) ELSE chars)
    ELSE chars

\* decode_syllable without reversed(): letters stay least-significant first
decode_syllable_unreversed(code) == DecodeSyllableLoop(_from_base32(code), <<>>)

decode_syllable(code) == Reversed(DecodeSyllableLoop(_from_base32(code), <<>>))

-----------------------------------------------------------------------------
(* Affix detector *)

\* _is_valid_stem without the vowel test
_is_valid_stem_by_length(stem) == Len(stem) >= 2

_is_valid_stem(stem) ==
    IF Len(stem) < 2 THEN FALSE
    ELSE \E i \in DOMAIN stem : In(stem[i], vowels)

\* time_prefixes: priority 1, sorted by prefix length, longest first
time_prefixes ==
    LET sel == SelectSeq(grammar_prefixes_values, LAMBDA p : p.priority = 1)
    IN  SortedByKey(sel, [i \in DOMAIN sel |-> 0 - Len(sel[i].prefix)])

\* modality_prefixes: priority > 1, sorted by priority
modality_prefixes ==
    LET sel == SelectSeq(grammar_prefixes_values, LAMBDA p : p.priority > 1)
    IN  SortedByKey(sel, [i \in DOMAIN sel |-> sel[i].priority])

\* suffix_candidates sorted without reverse=True: shortest first
suffix_candidates_shortest_first ==
    SortedByKey(grammar_suffixes_values,
                [i \in DOMAIN grammar_suffixes_values |->
                    Len(grammar_suffixes_values[i].suffix)])

\* suffix_candidates: sorted by suffix length, longest first
suffix_candidates ==
    SortedByKey(grammar_suffixes_values,
                [i \in DOMAIN grammar_suffixes_values |->
                    0 - Len(grammar_suffixes_values[i].suffix)])

\* Step 1 without the check of the remainder (line 124)
TimePrefixStepUnchecked(w) ==
    LET hits == {i \in DOMAIN time_prefixes : startswith(w, time_prefixes[i].prefix)}
    IN  IF hits = {} THEN None ELSE Some(time_prefixes[Min(hits)])

\* Step 1, the for loop over time_prefixes: the first prefix the word starts
\* with whose removal leaves a valid stem; <<>> when the loop ends without break.
TimePrefixStep(w) ==
    LET hits == {i \in DOMAIN time_prefixes :
                    /\ startswith(w, time_prefixes[i].prefix)
                    /\ _is_valid_stem(DropFirst(w, Len(time_prefixes[i].prefix)))}
    IN  IF hits = {} THEN None ELSE Some(time_prefixes[Min(hits)])

\* the look-ahead without its second check (lines 157-158): a modality prefix
\* is accepted only when a suffix can still be stripped
SuffixFoundBySuffixOnly(remaining_after_all) ==
    \E i \in DOMAIN grammar_suffixes_values :
        /\ endswith(remaining_after_all, grammar_suffixes_values[i].suffix)
        /\ _is_valid_stem(DropLast(remaining_after_all,
                                   Len(grammar_suffixes_values[i].suffix)))

\* the look-ahead finding something behind every prefix
SuffixFoundAlways(remaining_after_all) == TRUE

\* the suffix look-ahead of the modality loop: suffix_found after both checks
SuffixFound(remaining_after_all) ==
    LET by_suffix ==
            \E i \in DOMAIN grammar_suffixes_values :
                /\ endswith(remaining_after_all, grammar_suffixes_values[i].suffix)
                /\ _is_valid_stem(DropLast(remaining_after_all,
                                           Len(grammar_suffixes_values[i].suffix)))
    IN  IF by_suffix THEN TRUE
        ELSE _is_valid_stem(remaining_after_all)

\* Step 2, one pass of the for loop inside the while loop: the modality prefix
\* that is accepted (break), <<>> when the pass accepts none.
ModalityPass(w) ==
    LET hits == {i \in DOMAIN modality_prefixes :
                    /\ startswith(w, modality_prefixes[i].prefix)
                    /\ SuffixFound(DropFirst(w, Len(modality_prefixes[i].prefix)))}
    IN  IF hits = {} THEN None ELSE Some(modality_prefixes[Min(hits)])

\* the while body without `found_modality = True` (line 163): the loop stops
\* after the first accepted prefix
ModalityWhileBodyOnce(w, mods) ==
    IF ModalityPass(w) = None
    THEN [word |-> w, modality_prefixes |-> mods, found_modality |-> FALSE]
    ELSE [word |-> DropFirst(w, Len(ModalityPass(w)[1].prefix)),
          modality_prefixes |-> Append(mods, ModalityPass(w)[1]),
          found_modality |-> FALSE]

\* the while body without `found_modality = False` (line 140): the flag set
\* before the loop is never cleared
ModalityWhileBodyNoReset(w, mods) ==
    IF ModalityPass(w) = None
    THEN [word |-> w, modality_prefixes |-> mods, found_modality |-> TRUE]
    ELSE [word |-> DropFirst(w, Len(ModalityPass(w)[1].prefix)),
          modality_prefixes |-> Append(mods, ModalityPass(w)[1]),
          found_modality |-> TRUE]

\* the while body with the accepted prefix put at the front of the list
ModalityWhileBodyPrepending(w, mods) ==
    IF ModalityPass(w) = None
    THEN [word |-> w, modality_prefixes |-> mods, found_modality |-> FALSE]
    ELSE [word |-> DropFirst(w, Len(ModalityPass(w)[1].prefix)),
          modality_prefixes |-> <<ModalityPass(w)[1]>> \o mods,
          found_modality |-> TRUE]

\* Step 2, the body of the while loop: found_modality = False, then the pass
ModalityWhileBody(w, mods) ==
    LET hit == ModalityPass(w)
    IN  IF hit = None
        THEN [word |-> w, modality_prefixes |-> mods, found_modality |-> FALSE]
        ELSE [word |-> DropFirst(w, Len(hit[1].prefix)),
              modality_prefixes |-> Append(mods, hit[1]),
              found_modality |-> TRUE]

\* Step 2, the while loop: [word, modality_prefixes] when it exits
RECURSIVE ModalityLoop(_, _, _)
ModalityLoop(w, found, mods) ==
    IF found /\ w # <<>>
    THEN LET b == ModalityWhileBody(w, mods)
         IN  ModalityLoop(b.word, b.found_modality, b.modality_prefixes)
    ELSE [word |-> w, modality_prefixes |-> mods]

\* Step 3, the for loop over suffix_candidates
SuffixStep(w) ==
    LET hits == {i \in DOMAIN suffix_candidates :
                    /\ endswith(w, suffix_candidates[i].suffix)
                    /\ _is_valid_stem(DropLast(w, Len(suffix_candidates[i].suffix)))}
    IN  IF hits = {} THEN None ELSE Some(suffix_candidates[Min(hits)])

_fallback_detection(w) ==
    LET hits == {i \in DOMAIN grammar_suffixes_values :
                    /\ endswith(w, grammar_suffixes_values[i].suffix)
                    /\ Len(DropLast(w, Len(grammar_suffixes_values[i].suffix))) >= 2}
    IN  IF hits = {}
        THEN [time_prefix |-> None, modality_prefixes |-> <<>>,
              suffix |-> None, stem |-> w]
        ELSE LET suffix_info == grammar_suffixes_values[Min(hits)]
             IN  [time_prefix |-> None, modality_prefixes |-> <<>>,
                  suffix |-> Some(suffix_info),
                  stem |-> DropLast(w, Len(suffix_info.suffix))]

\* step 4 without `detected_affixes['stem'] = word`: the stem stays the
\* original word
ValidateStepKeepsWord(original_word, time, mods, suffix, w) ==
    IF ~_is_valid_stem(w) THEN _fallback_detection(original_word)
    ELSE [time_prefix |-> time, modality_prefixes |-> mods,
          suffix |-> suffix, stem |-> original_word]

\* Step 4 and the return: w is the remaining word after steps 1-3
ValidateStep(original_word, time, mods, suffix, w) ==
    IF ~_is_valid_stem(w) THEN _fallback_detection(original_word)
    ELSE [time_prefix |-> time, modality_prefixes |-> mods,
          suffix |-> suffix, stem |-> w]

\* word[len(prefix):] for an accepted prefix, the word itself for None
StripPrefix(w, accepted) ==
    IF accepted = None THEN w ELSE DropFirst(w, Len(accepted[1].prefix))

\* word[:-len(suffix)] for an accepted suffix, the word itself for None
StripSuffix(w, accepted) ==
    IF accepted = None THEN w ELSE DropLast(w, Len(accepted[1].suffix))

\* steps 3 and 4, after the while loop has exited with `loop`
DetectAfterLoop(original_word, time, loop, suf) ==
    ValidateStep(original_word, time, loop.modality_prefixes, suf,
                 StripSuffix(loop.word, suf))

\* steps 2 to 4, after step 1 has accepted `time`
DetectAfterTime(original_word, time, loop) ==
    DetectAfterLoop(original_word, time, loop, SuffixStep(loop.word))

_detect_grammar_affixes(original_word) ==
    LET time == TimePrefixStep(original_word)
    IN  DetectAfterTime(original_word, time,
                        ModalityLoop(StripPrefix(original_word, time), TRUE, <<>>))

-----------------------------------------------------------------------------
(* Syllable splitting *)

\* the for loop of _split_stem_into_syllables from index i (0-based) on
RECURSIVE SplitStemLoop(_, _, _, _)
SplitStemLoop(stem, i, syllables, current_syllable) ==
    IF i >= Len(stem) THEN syllables
    ELSE LET char == stem[i + 1]
             cur  == Append(current_syllable, char)
         IN  IF Len(cur) >= 3
             THEN SplitStemLoop(stem, i + 1, Append(syllables, cur), <<>>)
             ELSE IF i = Len(stem) - 1
             THEN SplitStemLoop(stem, i + 1, Append(syllables, cur), cur)
             ELSE IF In(char, vowels) /\ i < Len(stem) - 1 /\ In(stem[i + 2], vowels)
             THEN SplitStemLoop(stem, i + 1, Append(syllables, cur), <<>>)
             ELSE SplitStemLoop(stem, i + 1, syllables, cur)

\* _split_stem_into_syllables without the early return for short stems
_split_stem_into_syllables_by_loop(stem) ==
    IF stem = <<>> THEN <<>>
    ELSE SplitStemLoop(stem, 0, <<>>, <<>>)

_split_stem_into_syllables(stem) ==
    IF stem = <<>> THEN <<>>
    ELSE IF Len(stem) <= 3 THEN <<stem>>
    ELSE SplitStemLoop(stem, 0, <<>>, <<>>)

\* the for loop of _split_suffix_into_syllables: [syllables, current] at its end
RECURSIVE SplitSuffixLoop(_, _, _)
SplitSuffixLoop(suffix, syllables, current) ==
    IF suffix = <<>> THEN [syllables |-> syllables, current |-> current]
    ELSE LET cur == Append(current, Head(suffix))
         IN  IF In(Head(suffix), vowels)
             THEN SplitSuffixLoop(Tail(suffix), Append(syllables, cur), <<>>)
             ELSE SplitSuffixLoop(Tail(suffix), syllables, cur)

\* the `if current:` block after the loop of _split_suffix_into_syllables
MergeTail(syllables, current) ==
    IF current # <<>>
    THEN (IF syllables # <<>>
          THEN [syllables EXCEPT ![Len(syllables)] = syllables[Len(syllables)] \o current]
          ELSE Append(syllables, current))
    ELSE syllables

\* the loop's result handed to the `if current:` block
MergeLoopResult(r) == MergeTail(r.syllables, r.current)

_split_suffix_into_syllables(suffix) ==
    MergeLoopResult(SplitSuffixLoop(suffix, <<>>, <<>>))

\* the body of _improved_syllable_split once affix_info is known
SyllablesOfAnalysis(info) ==
    (IF info.time_prefix # None THEN <<info.time_prefix[1].prefix>> ELSE <<>>)
    \o [i \in DOMAIN info.modality_prefixes |-> info.modality_prefixes[i].prefix]
    \o _split_stem_into_syllables(info.stem)
    \o (IF info.suffix # None
        THEN _split_suffix_into_syllables(info.suffix[1].suffix)
        ELSE <<>>)

_improved_syllable_split(w) ==
    IF w = <<>> THEN <<>>
    ELSE SyllablesOfAnalysis(_detect_grammar_affixes(w))

word_to_syllables(w, delim) ==
    IF delim # <<>> /\ Contains(w, delim) THEN Split(w, delim)
    ELSE _improved_syllable_split(w)

-----------------------------------------------------------------------------
(* Grammar tag codec *)

\* time_map of _grammar_affixes_to_code, with .get's default
TimeMapGet(prefix) ==
    CASE prefix = <<"h", "a">>      -> <<"T", "P">>
      [] prefix = <<"a", "k", "e">> -> <<"T", "N">>
      [] prefix = <<"k", "a">>      -> <<"T", "F">>
      [] OTHER                      -> <<"0", "0">>

\* suffix_map of _grammar_affixes_to_code, with .get's default
SuffixMapGet(key) ==
    CASE key = "adjective"  -> <<"S", "A">>
      [] key = "participle" -> <<"S", "P">>
      [] key = "verb"       -> <<"S", "V">>
      [] key = "adverb"     -> <<"S", "D">>
      [] key = "gerund"     -> <<"S", "G">>
      [] OTHER              -> <<"0", "0">>

\* the for loop over affix_info['modality_prefixes'] building the bitmask
RECURSIVE ModalityMask(_, _)
ModalityMask(mods, mask) ==
    IF mods = <<>> THEN mask
    ELSE LET prefix == Head(mods).prefix
         IN  ModalityMask(Tail(mods),
                CASE prefix = <<"t", "o">> -> BitOr(mask, 1)
                  [] prefix = <<"t", "e">> -> BitOr(mask, 2)
                  [] prefix = <<"t", "a">> -> BitOr(mask, 4)
                  [] OTHER                 -> mask)

\* affix_info['suffix']['prefix']: a suffix entry has the keys 'suffix' and
\* 'label' only, so the subscript raises KeyError whenever a suffix is present
SuffixCode(info) ==
    IF info.suffix # None
    THEN (IF "prefix" \in DOMAIN info.suffix[1]
          THEN Return(SuffixMapGet(info.suffix[1]["prefix"]))
          ELSE Raise("KeyError"))
    ELSE Return(<<"0", "0">>)

_grammar_affixes_to_code(info) ==
    LET time_code == IF info.time_prefix # None
                     THEN TimeMapGet(info.time_prefix[1].prefix)
                     ELSE <<"0", "0">>
        modality_code == IF info.modality_prefixes # <<>>
                         THEN _to_base32(ModalityMask(info.modality_prefixes, 0))
                         ELSE <<"0", "0">>
        suffix_code == SuffixCode(info)
    IN  IF suffix_code.exc # "" THEN suffix_code
        ELSE Return(time_code \o modality_code \o suffix_code.val)

\* time_map with the past tense as the default of .get
TimeMapBackDefaultsToPast(time_code) ==
    CASE time_code = <<"T", "N">> -> [name |-> Some(<<"a", "k", "e">>), label |-> Some("Nastoyashchee vremya")]
      [] time_code = <<"T", "F">> -> [name |-> Some(<<"k", "a">>), label |-> Some("Budushchee vremya")]
      [] OTHER                    -> [name |-> Some(<<"h", "a">>), label |-> Some("Proshedshee vremya")]

\* time_map of _code_to_grammar_affixes, with .get's default (None, None)
TimeMapBack(time_code) ==
    CASE time_code = <<"T", "P">> -> [name |-> Some(<<"h", "a">>), label |-> Some("Proshedshee vremya")]
      [] time_code = <<"T", "N">> -> [name |-> Some(<<"a", "k", "e">>), label |-> Some("Nastoyashchee vremya")]
      [] time_code = <<"T", "F">> -> [name |-> Some(<<"k", "a">>), label |-> Some("Budushchee vremya")]
      [] OTHER                    -> [name |-> None, label |-> None]

\* suffix_map of _code_to_grammar_affixes, with .get's default (None, None)
SuffixMapBack(suffix_code) ==
    CASE suffix_code = <<"S", "A">> -> [name |-> Some("adjective"), label |-> Some("Prilagatelnoe")]
      [] suffix_code = <<"S", "P">> -> [name |-> Some("participle"), label |-> Some("Prichastie")]
      [] suffix_code = <<"S", "V">> -> [name |-> Some("verb"), label |-> Some("Glagol")]
      [] suffix_code = <<"S", "D">> -> [name |-> Some("adverb"), label |-> Some("Narechie")]
      [] suffix_code = <<"S", "G">> -> [name |-> Some("gerund"), label |-> Some("Deeprichastie")]
      [] OTHER                      -> [name |-> None, label |-> None]

\* the three bit tests taken in the order ta, te, to
ModalitiesOfMaskReversed(modality_mask) ==
    (IF BitAnd(modality_mask, 4) # 0
        THEN <<[prefix |-> <<"t", "a">>, label |-> "Otsutstvie"]>> ELSE <<>>)
    \o (IF BitAnd(modality_mask, 2) # 0
        THEN <<[prefix |-> <<"t", "e">>, label |-> "Neopredelyonnost"]>> ELSE <<>>)
    \o (IF BitAnd(modality_mask, 1) # 0
        THEN <<[prefix |-> <<"t", "o">>, label |-> "Absolyutizm"]>> ELSE <<>>)

\* the three bit tests of _code_to_grammar_affixes
ModalitiesOfMask(modality_mask) ==
    (IF BitAnd(modality_mask, 1) # 0
        THEN <<[prefix |-> <<"t", "o">>, label |-> "Absolyutizm"]>> ELSE <<>>)
    \o (IF BitAnd(modality_mask, 2) # 0
        THEN <<[prefix |-> <<"t", "e">>, label |-> "Neopredelyonnost"]>> ELSE <<>>)
    \o (IF BitAnd(modality_mask, 4) # 0
        THEN <<[prefix |-> <<"t", "a">>, label |-> "Otsutstvie"]>> ELSE <<>>)

\* the empty dict {} is the function with the empty domain
_code_to_grammar_affixes(code) ==
    IF Len(code) # 6 THEN Return(<<>>)
    ELSE LET time_info     == TimeMapBack(Slice(code, 0, 2))
             modality_code == Slice(code, 2, 4)
             suffix_info   == SuffixMapBack(Slice(code, 4, 6))
         IN  IF Raises_from_base32(modality_code) THEN Raise("ValueError")
             ELSE Return([time_prefix |-> time_info.name,
                          time_label |-> time_info.label,
                          modality_prefixes |->
                              ModalitiesOfMask(_from_base32(modality_code)),
                          suffix_part |-> suffix_info.name,
                          suffix_label |-> suffix_info.label])

-----------------------------------------------------------------------------
(* Identifier assembler *)

\* the for loop encoding each syllable
EncodeAll(syllables) == [i \in DOMAIN syllables |-> encode_syllable(syllables[i])]

\* the statistics block with grammar_processed counted for every word
CountWordGrammarAlways(st, syllables, incl_grammar) ==
    [words_processed |-> st.words_processed + 1,
     syllables_processed |-> st.syllables_processed + Len(syllables),
     grammar_processed |-> st.grammar_processed + 1]

\* the statistics block of word_to_id, lines 326-330
CountWord(st, syllables, incl_grammar) ==
    [words_processed |-> st.words_processed + 1,
     syllables_processed |-> st.syllables_processed + Len(syllables),
     grammar_processed |-> st.grammar_processed + (IF incl_grammar THEN 1 ELSE 0)]

\* word_to_id counting the word before the grammar block
AssembleIdCountingFirst(syllables, incl_length, incl_grammar, grammar, st) ==
    [exc |-> grammar.exc,
     val |-> IF grammar.exc # "" THEN <<>>
             ELSE (IF incl_length THEN _to_base32(Len(syllables)) ELSE <<>>)
                  \o Concat(EncodeAll(syllables)) \o grammar.val,
     stats |-> CountWord(st, syllables, incl_grammar)]

\* word_to_id from the grammar block on; grammar is the outcome of
\* _grammar_affixes_to_code, which raises before any counter is touched
AssembleId(syllables, incl_length, incl_grammar, grammar, st) ==
    IF grammar.exc # ""
    THEN [exc |-> grammar.exc, val |-> <<>>, stats |-> st]
    ELSE [exc |-> "",
          val |-> (IF incl_length THEN _to_base32(Len(syllables)) ELSE <<>>)
                  \o Concat(EncodeAll(syllables)) \o grammar.val,
          stats |-> CountWord(st, syllables, incl_grammar)]

\* word_to_id: [exc, val, stats]; st is self.stats before the call
word_to_id(w, delim, incl_length, incl_grammar, st) ==
    AssembleId(word_to_syllables(w, delim), incl_length, incl_grammar,
               IF incl_grammar
               THEN _grammar_affixes_to_code(_detect_grammar_affixes(w))
               ELSE Return(<<>>),
               st)

\* the chunks the decoding loop of id_to_word visits: range(syllable_count)
\* filtered by end <= len(code_part)
Chunks(code_part, syllable_count) ==
    LET visited == {i \in 0..(syllable_count - 1) : i * 2 + 2 <= Len(code_part)}
    IN  [k \in 1..Cardinality(visited) |-> Slice(code_part, (k - 1) * 2, (k - 1) * 2 + 2)]

\* the loop over reversed(grammar_info['modality_prefixes'])
RECURSIVE PrependModalities(_, _)
PrependModalities(mods, w) ==
    IF mods = <<>> THEN w
    ELSE LET m == Head(mods).prefix
         IN  PrependModalities(Tail(mods),
                IF m # <<>> /\ ~startswith(w, m) THEN m \o w ELSE w)

\* grammar_info.get(key): None for a missing key
DictGet(info, key) == IF key \in DOMAIN info THEN info[key] ELSE None

\* the time prefix prepended without the startswith test
PrependTimeAlways(w, time) ==
    IF time # None /\ time[1] # <<>> THEN time[1] \o w ELSE w

\* the `# Добавляем временную приставку` block
PrependTime(w, time) ==
    IF time # None /\ time[1] # <<>> /\ ~startswith(w, time[1])
    THEN time[1] \o w ELSE w

\* the `# Добавляем суффикс` block
AppendSuffix(w, part) ==
    IF part # None
    THEN (IF ~endswith(w, grammar_suffixes[part[1]].suffix)
          THEN w \o grammar_suffixes[part[1]].suffix ELSE w)
    ELSE w

\* the affix reconstruction of id_to_word; info is grammar_info (possibly {})
Reconstruct(w, info) ==
    AppendSuffix(
        PrependTime(
            IF "modality_prefixes" \in DOMAIN info
            THEN PrependModalities(Reversed(info.modality_prefixes), w)
            ELSE w,
            DictGet(info, "time_prefix")),
        DictGet(info, "suffix_part"))

\* the decoding loop of id_to_word and everything after it
DecodeChunks(chunks, delim, info) ==
    IF \E k \in DOMAIN chunks : Raises_from_base32(chunks[k])
    THEN [exc |-> "ValueError", word |-> <<>>, grammar_info |-> <<>>]
    ELSE [exc |-> "",
          word |-> Reconstruct(
                      Join(delim, [k \in DOMAIN chunks |-> decode_syllable(chunks[k])]),
                      info),
          grammar_info |-> info]

\* id_to_word after the grammar tag has been cut off: id1 is what is left of
\* id_string, info the decoded grammar_info
DecodeBody(id1, delim, incl_length, info) ==
    IF incl_length
    THEN (IF Raises_from_base32(Slice(id1, 0, 2))
          THEN [exc |-> "ValueError", word |-> <<>>, grammar_info |-> <<>>]
          ELSE DecodeChunks(Chunks(DropFirst(id1, 2), _from_base32(Slice(id1, 0, 2))),
                            delim, info))
    ELSE DecodeChunks(Chunks(id1, Len(id1) \div 2), delim, info)

\* id_to_word once the grammar tag (if any) has been decoded
DecodeAfterTag(id1, delim, incl_length, decoded) ==
    IF decoded.exc # ""
    THEN [exc |-> decoded.exc, word |-> <<>>, grammar_info |-> <<>>]
    ELSE DecodeBody(id1, delim, incl_length, decoded.val)

\* id_to_word: [exc, word, grammar_info]
id_to_word(id, delim, incl_length, incl_grammar) ==
    IF incl_grammar /\ Len(id) >= 6
    THEN DecodeAfterTag(DropLast(id, 6), delim, incl_length,
                        _code_to_grammar_affixes(TakeLast(id, 6)))
    ELSE DecodeAfterTag(id, delim, incl_length, Return(<<>>))

-----------------------------------------------------------------------------
(* Inputs *)

\* longest stem drawn for a generated word
MaxStemLen == 3
\* most prefixes stacked on a generated word given to the analyzer
MaxPrefixes == 2
\* most prefixes stacked on a generated word given to word_to_id
MaxSessionPrefixes == 1
\* longest stem drawn for a generated word of the termination check
MaxLoopStemLen == 1
\* longest syllable given to encode_syllable
MaxSylLen == 2
\* longest modality list of an analysis given to _grammar_affixes_to_code
MaxModalities == 3

Letters == {consonants[i] : i \in DOMAIN consonants} \cup {vowels[i] : i \in DOMAIN vowels}

\* letters the stems of generated words are drawn from: a vowel and a consonant
StemLetters == {"a", "b"}

\* all sequences over S of length 0..n
SeqsUpTo(S, n) == UNION {[1..k -> S] : k \in 0..n}

PrefixTexts == {grammar_prefixes_values[i].prefix : i \in DOMAIN grammar_prefixes_values}

SuffixTexts == {grammar_suffixes_values[i].suffix : i \in DOMAIN grammar_suffixes_values}

\* the words of run_test_examples
TestWords ==
    { <<"h","a","p","p","y">>, <<"r","u","n","n","i","n","g">>, <<"p","l","a","y">>,
      <<"q","u","i","c","k","l","y">>, <<"e","a","t","i","n","g">>,
      <<"a","b","p","i">>, <<"b","a","y","e">>, <<"c","o","m","u">>,
      <<"d","e","y","e","p","i">>, <<"f","i","y","e","m","u">>,
      <<"h","a","p","p","y","y","e">>, <<"h","a","p","p","y","m","u">>,
      <<"a","b">>, <<"b","a">>, <<"p","i">>,
      <<"t","o","t","a","l","a","y","e","p","i">>, <<"t","o","t","a","l","a","y","e">>,
      <<"a","k","e","t","o","t","a","l","a","y","e">>,
      <<"t","o","t","o","t","a","l","a","y","e">>,
      <<"h","a","t","o","t","a","l","a","y","e">>,
      <<"k","a","t","o","t","a","l","a","y","e">>,
      <<"t","a","t","o","t","a","l","a","y","e">>,
      <<"t","e","t","o","t","a","l","a","y","e">>,
      <<"a","k","e","t","o","t","e","t","a","l","a","n","i","y","e">> }

\* prefixes + stem + optional suffix: at most n prefixes, a stem of at most k
\* letters
GeneratedWords(n, k) ==
    {Concat(ps) \o st \o sf : ps \in SeqsUpTo(PrefixTexts, n),
                              st \in SeqsUpTo(StemLetters, k),
                              sf \in SuffixTexts \cup {<<>>}}

AnalyzerWords == TestWords \cup GeneratedWords(MaxPrefixes, MaxStemLen)

LoopWords == TestWords \cup GeneratedWords(MaxPrefixes, MaxLoopStemLen)

SessionWords == TestWords \cup GeneratedWords(MaxSessionPrefixes, MaxStemLen)

Delimiters == {<<"-">>, <<>>}

EmptyAnalysis == [time_prefix |-> None, modality_prefixes |-> <<>>,
                  suffix |-> None, stem |-> <<>>]

\* no helper function has been called on its own
IdleScalars ==
    /\ b32_number = 0
    /\ b32_string = <<>>
    /\ b32_back = 0
    /\ chr_arg = ""
    /\ chr_code = 0
    /\ chr_back = ""
    /\ word_count = 0
    /\ collision_prob = None
    /\ calls = <<>>
    /\ split = <<>>

-----------------------------------------------------------------------------
(* Sessions: analyse a word, encode it, decode the identifier with the same
   settings (the loop body of run_test_examples) *)

Init ==
    /\ word \in SessionWords
    /\ delimiter = <<"-">>
    /\ include_length = TRUE
    /\ include_grammar = TRUE
    /\ pc = "start"
    /\ affix_info = EmptyAnalysis
    /\ id_string = <<>>
    /\ reconstructed = <<>>
    /\ grammar_info = <<>>
    /\ exc = ""
    /\ stats = InitStats
    /\ rem = <<>>
    /\ found_modality = FALSE
    /\ syllable = <<>>
    /\ syl_code = <<>>
    /\ syl_back = <<>>
    /\ tag = <<>>
    /\ IdleScalars

\* detect_word_grammar's call of _detect_grammar_affixes
Analyze ==
    /\ pc = "start"
    /\ affix_info' = _detect_grammar_affixes(word)
    /\ pc' = "analyzed"
    /\ UNCHANGED <<word, delimiter, include_length, include_grammar, id_string,
                   reconstructed, grammar_info, exc, stats, rem, found_modality,
                   syllable, syl_code, syl_back, tag, scalars>>

\* the assignments of a word_to_id call whose outcome is r
WordToIdOutcome(d, l, g, r) ==
    /\ delimiter' = d
    /\ include_length' = l
    /\ include_grammar' = g
    /\ exc' = r.exc
    /\ id_string' = r.val
    /\ stats' = r.stats
    /\ pc' = IF r.exc = "" THEN "encoded" ELSE "raised"

WordToId ==
    /\ pc = "analyzed"
    /\ \E d \in Delimiters, l \in BOOLEAN, g \in BOOLEAN :
         WordToIdOutcome(d, l, g, word_to_id(word, d, l, g, stats))
    /\ UNCHANGED <<word, affix_info, reconstructed, grammar_info, rem,
                   found_modality, syllable, syl_code, syl_back, tag, scalars>>

\* the assignments of an id_to_word call whose outcome is r
IdToWordOutcome(r) ==
    /\ exc' = r.exc
    /\ reconstructed' = r.word
    /\ grammar_info' = r.grammar_info
    /\ pc' = IF r.exc = "" THEN "decoded" ELSE "raised"

IdToWord ==
    /\ pc = "encoded"
    /\ IdToWordOutcome(id_to_word(id_string, delimiter, include_length, include_grammar))
    /\ UNCHANGED <<word, delimiter, include_length, include_grammar, affix_info,
                   id_string, stats, rem, found_modality, syllable, syl_code,
                   syl_back, tag, scalars>>

Next == Analyze \/ WordToId \/ IdToWord

Spec == Init /\ [][Next]_vars

-----------------------------------------------------------------------------
(* _detect_grammar_affixes step by step: one action per step of the function,
   one action per iteration of its while loop *)

AnalyzeStart(words) ==
    /\ word \in words
    /\ rem = word
    /\ affix_info = [EmptyAnalysis EXCEPT !.stem = word]
    /\ found_modality = FALSE
    /\ pc = "a_time"
    /\ delimiter = <<"-">>
    /\ include_length = TRUE
    /\ include_grammar = TRUE
    /\ id_string = <<>>
    /\ reconstructed = <<>>
    /\ grammar_info = <<>>
    /\ exc = ""
    /\ stats = InitStats
    /\ syllable = <<>>
    /\ syl_code = <<>>
    /\ syl_back = <<>>
    /\ tag = <<>>
    /\ IdleScalars

AnalyzeFrame == UNCHANGED <<word, delimiter, include_length, include_grammar,
                            id_string, reconstructed, grammar_info, exc, stats,
                            syllable, syl_code, syl_back, tag, scalars>>

\* step 1, then found_modality = True before the while loop
StepTime ==
    /\ pc = "a_time"
    /\ LET time == TimePrefixStep(rem)
       IN  /\ affix_info' = [affix_info EXCEPT !.time_prefix = time]
           /\ rem' = IF time = None THEN rem ELSE DropFirst(rem, Len(time[1].prefix))
    /\ found_modality' = TRUE
    /\ pc' = "a_modality"
    /\ AnalyzeFrame

\* one iteration of `while found_modality and word`
StepModality ==
    /\ pc = "a_modality"
    /\ found_modality /\ rem # <<>>
    /\ LET b == ModalityWhileBody(rem, affix_info.modality_prefixes)
       IN  /\ rem' = b.word
           /\ affix_info' = [affix_info EXCEPT !.modality_prefixes = b.modality_prefixes]
           /\ found_modality' = b.found_modality
    /\ pc' = "a_modality"
    /\ AnalyzeFrame

\* the while condition is false
ExitModality ==
    /\ pc = "a_modality"
    /\ ~(found_modality /\ rem # <<>>)
    /\ pc' = "a_suffix"
    /\ UNCHANGED <<rem, affix_info, found_modality>>
    /\ AnalyzeFrame

\* step 3
StepSuffix ==
    /\ pc = "a_suffix"
    /\ LET suf == SuffixStep(rem)
       IN  /\ affix_info' = [affix_info EXCEPT !.suffix = suf]
           /\ rem' = IF suf = None THEN rem ELSE DropLast(rem, Len(suf[1].suffix))
    /\ pc' = "a_validate"
    /\ UNCHANGED found_modality
    /\ AnalyzeFrame

\* step 4 and the return
StepValidate ==
    /\ pc = "a_validate"
    /\ affix_info' = ValidateStep(word, affix_info.time_prefix,
                                  affix_info.modality_prefixes, affix_info.suffix, rem)
    /\ pc' = "a_done"
    /\ UNCHANGED <<rem, found_modality>>
    /\ AnalyzeFrame

NextAnalyze == StepTime \/ StepModality \/ ExitModality \/ StepSuffix \/ StepValidate

InitAnalyze == AnalyzeStart(AnalyzerWords)

SpecAnalyze == InitAnalyze /\ [][NextAnalyze]_vars

InitLoop == AnalyzeStart(LoopWords)

\* a running call keeps executing: the program is sequential and nothing
\* preempts it
SpecAnalyzeFair == InitLoop /\ [][NextAnalyze]_vars /\ WF_vars(NextAnalyze)

-----------------------------------------------------------------------------
(* Syllable codec on its own *)

InitSyllable ==
    /\ syllable \in SeqsUpTo(Letters, MaxSylLen)
    /\ syl_code = <<>>
    /\ syl_back = <<>>
    /\ pc = "s_start"
    /\ word = <<>>
    /\ rem = <<>>
    /\ affix_info = EmptyAnalysis
    /\ found_modality = FALSE
    /\ delimiter = <<"-">>
    /\ include_length = TRUE
    /\ include_grammar = TRUE
    /\ id_string = <<>>
    /\ reconstructed = <<>>
    /\ grammar_info = <<>>
    /\ exc = ""
    /\ stats = InitStats
    /\ tag = <<>>
    /\ IdleScalars

SyllableFrame == UNCHANGED <<word, delimiter, include_length, include_grammar,
                             affix_info, id_string, reconstructed, grammar_info,
                             stats, rem, found_modality, syllable, tag, scalars>>

EncodeSyllable ==
    /\ pc = "s_start"
    /\ syl_code' = encode_syllable(syllable)
    /\ pc' = "s_encoded"
    /\ UNCHANGED <<syl_back, exc>>
    /\ SyllableFrame

DecodeSyllable ==
    /\ pc = "s_encoded"
    /\ IF Raises_from_base32(syl_code)
       THEN exc' = "ValueError" /\ pc' = "s_raised" /\ UNCHANGED syl_back
       ELSE syl_back' = decode_syllable(syl_code) /\ pc' = "s_decoded" /\ UNCHANGED exc
    /\ UNCHANGED syl_code
    /\ SyllableFrame

NextSyllable == EncodeSyllable \/ DecodeSyllable

SpecSyllable == InitSyllable /\ [][NextSyllable]_vars

-----------------------------------------------------------------------------
(* Grammar tag codec on its own *)

\* what an analysis can hold: a time prefix or None, a list of modality
\* prefixes, a suffix or None
Analyses ==
    {[time_prefix |-> t, modality_prefixes |-> m, suffix |-> sf, stem |-> <<"a", "b">>] :
        t  \in {None} \cup {Some(time_prefixes[i]) : i \in DOMAIN time_prefixes},
        m  \in SeqsUpTo({modality_prefixes[i] : i \in DOMAIN modality_prefixes},
                        MaxModalities),
        sf \in {None} \cup {Some(grammar_suffixes_values[i]) :
                               i \in DOMAIN grammar_suffixes_values}}

InitGrammar ==
    /\ affix_info \in Analyses
    /\ tag = <<>>
    /\ grammar_info = <<>>
    /\ exc = ""
    /\ pc = "g_start"
    /\ word = <<>>
    /\ rem = <<>>
    /\ found_modality = FALSE
    /\ delimiter = <<"-">>
    /\ include_length = TRUE
    /\ include_grammar = TRUE
    /\ id_string = <<>>
    /\ reconstructed = <<>>
    /\ stats = InitStats
    /\ syllable = <<>>
    /\ syl_code = <<>>
    /\ syl_back = <<>>
    /\ IdleScalars

GrammarFrame == UNCHANGED <<word, delimiter, include_length, include_grammar,
                            affix_info, id_string, reconstructed, stats, rem,
                            found_modality, syllable, syl_code, syl_back, scalars>>

GrammarAffixesToCode ==
    /\ pc = "g_start"
    /\ LET r == _grammar_affixes_to_code(affix_info)
       IN  /\ tag' = r.val
           /\ exc' = r.exc
           /\ pc' = IF r.exc = "" THEN "g_encoded" ELSE "g_raised"
    /\ UNCHANGED grammar_info
    /\ GrammarFrame

CodeToGrammarAffixes ==
    /\ pc = "g_encoded"
    /\ LET r == _code_to_grammar_affixes(tag)
       IN  /\ grammar_info' = r.val
           /\ exc' = r.exc
           /\ pc' = IF r.exc = "" THEN "g_decoded" ELSE "g_raised"
    /\ UNCHANGED tag
    /\ GrammarFrame

NextGrammar == GrammarAffixesToCode \/ CodeToGrammarAffixes

SpecGrammar == InitGrammar /\ [][NextGrammar]_vars

-----------------------------------------------------------------------------
(* id_to_word on its own: identifiers typed in by the user of decode_id *)

\* most syllable chunks of an identifier given to id_to_word
MaxIdChunks == 2

\* syllable chunks: the codes of "ab", "ha" and "pi", and a chunk with a
\* symbol outside base32_alphabet
IdChunks == {encode_syllable(<<"a", "b">>), encode_syllable(<<"h", "a">>),
             encode_syllable(<<"p", "i">>), <<"L", "Z">>}

\* length fields put before n chunks: the right one, zero, and one with a
\* symbol outside base32_alphabet
IdLengthFields(n) == {_to_base32(n), <<"0", "0">>, <<"0", "Z">>}

\* grammar tags: each field absent, present, or with a symbol outside
\* base32_alphabet
IdTags ==
    {t \o m \o sf : t  \in {<<"0", "0">>, <<"T", "P">>, <<"Z", "0">>},
                    m  \in {<<"0", "0">>, <<"0", "1">>, <<"0", "Z">>},
                    sf \in {<<"0", "0">>, <<"S", "A">>, <<"S", "Z">>}}

Ids ==
    {l \o Concat(cs) \o t : cs \in SeqsUpTo(IdChunks, MaxIdChunks),
                            l \in UNION {IdLengthFields(n) : n \in 0..MaxIdChunks},
                            t \in IdTags}

InitDecode ==
    /\ id_string \in Ids
    /\ delimiter \in Delimiters
    /\ include_length \in BOOLEAN
    /\ include_grammar \in BOOLEAN
    /\ pc = "d_start"
    /\ reconstructed = <<>>
    /\ grammar_info = <<>>
    /\ exc = ""
    /\ word = <<>>
    /\ affix_info = EmptyAnalysis
    /\ stats = InitStats
    /\ rem = <<>>
    /\ found_modality = FALSE
    /\ syllable = <<>>
    /\ syl_code = <<>>
    /\ syl_back = <<>>
    /\ tag = <<>>
    /\ IdleScalars

\* the assignments of the id_to_word call of decode_id whose outcome is r
DecodeIdOutcome(r) ==
    /\ exc' = r.exc
    /\ reconstructed' = r.word
    /\ grammar_info' = r.grammar_info
    /\ pc' = IF r.exc = "" THEN "d_decoded" ELSE "d_raised"

DecodeId ==
    /\ pc = "d_start"
    /\ DecodeIdOutcome(id_to_word(id_string, delimiter, include_length, include_grammar))
    /\ UNCHANGED <<word, delimiter, include_length, include_grammar, affix_info,
                   id_string, stats, rem, found_modality, syllable, syl_code,
                   syl_back, tag, scalars>>

NextDecode == DecodeId

SpecDecode == InitDecode /\ [][NextDecode]_vars

-----------------------------------------------------------------------------
(* The usage counters over a sequence of word_to_id calls on one generator *)

\* most words counted by one generator
MaxCalls == 3

\* words given to the calls: no affix, a time prefix, two syllables, a suffix
StatsWords == {<<"a", "b">>, <<"h", "a", "a", "b">>, <<"a", "a", "m", "u">>,
               <<"a", "b", "p", "i">>}

InitCounters ==
    /\ stats = InitStats
    /\ pc = "st_idle"
    /\ word = <<>>
    /\ delimiter = <<"-">>
    /\ include_length = TRUE
    /\ include_grammar = TRUE
    /\ id_string = <<>>
    /\ exc = ""
    /\ affix_info = EmptyAnalysis
    /\ reconstructed = <<>>
    /\ grammar_info = <<>>
    /\ rem = <<>>
    /\ found_modality = FALSE
    /\ syllable = <<>>
    /\ syl_code = <<>>
    /\ syl_back = <<>>
    /\ tag = <<>>
    /\ IdleScalars

\* the assignments of a word_to_id(w, '-', l, g) call whose outcome is r
EncodeCallOutcome(w, l, g, r) ==
    /\ word' = w
    /\ include_length' = l
    /\ include_grammar' = g
    /\ exc' = r.exc
    /\ id_string' = r.val
    /\ stats' = r.stats
    /\ pc' = IF r.exc = "" THEN "st_returned" ELSE "st_raised"

\* one more call of word_to_id on the same generator
EncodeCall ==
    /\ stats.words_processed < MaxCalls
    /\ \E w \in StatsWords, l \in BOOLEAN, g \in BOOLEAN :
         EncodeCallOutcome(w, l, g, word_to_id(w, delimiter, l, g, stats))
    /\ UNCHANGED <<delimiter, affix_info, reconstructed, grammar_info, rem,
                   found_modality, syllable, syl_code, syl_back, tag, scalars>>

NextCounters == EncodeCall

SpecCounters == InitCounters /\ [][NextCounters]_vars

-----------------------------------------------------------------------------
(* get_collision_probability.  The float it returns is represented by the
   expression that produces it: the literal 1.0 of the clamp, or
   1 - pow(1 - 1/total_combinations, exponent) with the exponent computed. *)

total_combinations == 1024

\* the literal 1.0 returned by the clamp
ClampedOne == [expr |-> "1.0", exponent |-> 0]

\* the clamp taken from total_combinations on, one word too early
get_collision_probability_clamp_early(wc) ==
    IF wc >= total_combinations THEN ClampedOne
    ELSE [expr |-> "1 - pow(1 - 1/total_combinations, exponent)",
          exponent |-> (wc * (wc - 1)) \div 2]

get_collision_probability(wc) ==
    IF wc > total_combinations THEN ClampedOne
    ELSE [expr |-> "1 - pow(1 - 1/total_combinations, exponent)",
          exponent |-> (wc * (wc - 1)) \div 2]

\* how far around 0 and around total_combinations the word counts are drawn
MaxCount == 40

\* the word counts typed into estimate_collisions, and its default 1000000
WordCounts ==
    (0..MaxCount)
    \cup {total_combinations + d : d \in (0 - MaxCount)..MaxCount}
    \cup {1000000}

InitCollision ==
    /\ word_count \in WordCounts
    /\ collision_prob = None
    /\ calls = <<>>
    /\ split = <<>>
    /\ pc = "p_start"
    /\ b32_number = 0
    /\ b32_string = <<>>
    /\ b32_back = 0
    /\ chr_arg = ""
    /\ chr_code = 0
    /\ chr_back = ""
    /\ word = <<>>
    /\ delimiter = <<"-">>
    /\ include_length = TRUE
    /\ include_grammar = TRUE
    /\ affix_info = EmptyAnalysis
    /\ id_string = <<>>
    /\ reconstructed = <<>>
    /\ grammar_info = <<>>
    /\ exc = ""
    /\ stats = InitStats
    /\ rem = <<>>
    /\ found_modality = FALSE
    /\ syllable = <<>>
    /\ syl_code = <<>>
    /\ syl_back = <<>>
    /\ tag = <<>>

\* the variables of the codec, which the helper calls below leave alone
CodecFrame == UNCHANGED <<word, delimiter, include_length, include_grammar,
                          affix_info, id_string, reconstructed, grammar_info,
                          exc, stats, rem, found_modality, syllable, syl_code,
                          syl_back, tag, calls, split>>

GetCollisionProbability ==
    /\ pc = "p_start"
    /\ collision_prob' = Some(get_collision_probability(word_count))
    /\ pc' = "p_done"
    /\ UNCHANGED <<word_count, b32_number, b32_string, b32_back, chr_arg,
                   chr_code, chr_back>>
    /\ CodecFrame

NextCollision == GetCollisionProbability

SpecCollision == InitCollision /\ [][NextCollision]_vars

-----------------------------------------------------------------------------
(* _to_base32 and _from_base32 on their own *)

\* largest number given to _to_base32; the two-symbol capacity ends at 1023
MaxNumber == 1100

InitBase32 ==
    /\ b32_number \in 0..MaxNumber
    /\ b32_string = <<>>
    /\ b32_back = 0
    /\ pc = "b_start"
    /\ chr_arg = ""
    /\ chr_code = 0
    /\ chr_back = ""
    /\ word_count = 0
    /\ collision_prob = None
    /\ calls = <<>>
    /\ split = <<>>
    /\ word = <<>>
    /\ delimiter = <<"-">>
    /\ include_length = TRUE
    /\ include_grammar = TRUE
    /\ affix_info = EmptyAnalysis
    /\ id_string = <<>>
    /\ reconstructed = <<>>
    /\ grammar_info = <<>>
    /\ exc = ""
    /\ stats = InitStats
    /\ rem = <<>>
    /\ found_modality = FALSE
    /\ syllable = <<>>
    /\ syl_code = <<>>
    /\ syl_back = <<>>
    /\ tag = <<>>

ToBase32 ==
    /\ pc = "b_start"
    /\ b32_string' = _to_base32(b32_number)
    /\ pc' = "b_encoded"
    /\ UNCHANGED <<b32_number, b32_back, chr_arg, chr_code, chr_back,
                   word_count, collision_prob, exc>>
    /\ UNCHANGED <<word, delimiter, include_length, include_grammar, affix_info,
                   id_string, reconstructed, grammar_info, stats, rem,
                   found_modality, syllable, syl_code, syl_back, tag, calls,
                   split>>

FromBase32 ==
    /\ pc = "b_encoded"
    /\ IF Raises_from_base32(b32_string)
       THEN exc' = "ValueError" /\ pc' = "b_raised" /\ UNCHANGED b32_back
       ELSE b32_back' = _from_base32(b32_string) /\ pc' = "b_decoded" /\ UNCHANGED exc
    /\ UNCHANGED <<b32_number, b32_string, chr_arg, chr_code, chr_back,
                   word_count, collision_prob>>
    /\ UNCHANGED <<word, delimiter, include_length, include_grammar, affix_info,
                   id_string, reconstructed, grammar_info, stats, rem,
                   found_modality, syllable, syl_code, syl_back, tag, calls,
                   split>>

NextBase32 == ToBase32 \/ FromBase32

SpecBase32 == InitBase32 /\ [][NextBase32]_vars

-----------------------------------------------------------------------------
(* _char_to_code and _code_to_char on their own *)

\* largest code given to _code_to_char; the letters end at 26
MaxCode == 40

\* characters given to _char_to_code: the letters, and characters that are
\* no letter of the language
Chars == Letters \cup {"-", "?", "1", "A", " "}

\* codes given to _code_to_char
Codes == (0 - 3)..MaxCode

InitLetter ==
    /\ chr_arg \in Chars
    /\ chr_code \in Codes
    /\ chr_back = ""
    /\ pc = "l_start"
    /\ b32_number = 0
    /\ b32_string = <<>>
    /\ b32_back = 0
    /\ word_count = 0
    /\ collision_prob = None
    /\ calls = <<>>
    /\ split = <<>>
    /\ word = <<>>
    /\ delimiter = <<"-">>
    /\ include_length = TRUE
    /\ include_grammar = TRUE
    /\ affix_info = EmptyAnalysis
    /\ id_string = <<>>
    /\ reconstructed = <<>>
    /\ grammar_info = <<>>
    /\ exc = ""
    /\ stats = InitStats
    /\ rem = <<>>
    /\ found_modality = FALSE
    /\ syllable = <<>>
    /\ syl_code = <<>>
    /\ syl_back = <<>>
    /\ tag = <<>>

\* _char_to_code(chr_arg)
CharToCode ==
    /\ pc = "l_start"
    /\ chr_code' = _char_to_code(chr_arg)
    /\ pc' = "l_coded"
    /\ UNCHANGED <<chr_arg, chr_back, b32_number, b32_string, b32_back,
                   word_count, collision_prob>>
    /\ CodecFrame

\* _code_to_char(chr_code): of a code given by the caller (l_start), or of
\* the code _char_to_code has returned (l_coded)
CodeToChar ==
    /\ pc \in {"l_start", "l_coded"}
    /\ chr_back' = _code_to_char(chr_code)
    /\ pc' = IF pc = "l_start" THEN "l_char" ELSE "l_back"
    /\ UNCHANGED <<chr_arg, chr_code, b32_number, b32_string, b32_back,
                   word_count, collision_prob>>
    /\ CodecFrame

NextLetter == CharToCode \/ CodeToChar

SpecLetter == InitLetter /\ [][NextLetter]_vars

-----------------------------------------------------------------------------
(* _code_to_grammar_affixes on its own: any 6-character tag *)

\* how many symbols of base32_alphabet the first symbol of a modality field is
\* drawn from (the second is drawn from all 32)
MaxHighSymbol == 2

\* modality fields: two symbols of the alphabet, and one with a foreign symbol
TagModalityFields ==
    {<<base32_alphabet[i], base32_alphabet[j]>> :
        i \in 1..MaxHighSymbol, j \in DOMAIN base32_alphabet}
    \cup {<<"0", "Z">>}

\* time fields: none, the three of time_map, and two that are not in it
TagTimeFields == {<<"0", "0">>, <<"T", "P">>, <<"T", "N">>, <<"T", "F">>,
                  <<"Z", "Z">>, <<"P", "T">>}

\* suffix fields: none, the five of suffix_map, and two that are not in it
TagSuffixFields == {<<"0", "0">>, <<"S", "A">>, <<"S", "P">>, <<"S", "V">>,
                    <<"S", "D">>, <<"S", "G">>, <<"S", "Z">>, <<"A", "S">>}

Tags == {t \o m \o sf : t \in TagTimeFields, m \in TagModalityFields,
                        sf \in TagSuffixFields}

InitTag ==
    /\ tag \in Tags
    /\ grammar_info = <<>>
    /\ exc = ""
    /\ pc = "t_start"
    /\ affix_info = EmptyAnalysis
    /\ word = <<>>
    /\ rem = <<>>
    /\ found_modality = FALSE
    /\ delimiter = <<"-">>
    /\ include_length = TRUE
    /\ include_grammar = TRUE
    /\ id_string = <<>>
    /\ reconstructed = <<>>
    /\ stats = InitStats
    /\ syllable = <<>>
    /\ syl_code = <<>>
    /\ syl_back = <<>>
    /\ IdleScalars

\* the assignments of a _code_to_grammar_affixes call whose outcome is r
DecodeTagOutcome(r) ==
    /\ grammar_info' = r.val
    /\ exc' = r.exc
    /\ pc' = IF r.exc = "" THEN "t_decoded" ELSE "t_raised"

DecodeTag ==
    /\ pc = "t_start"
    /\ DecodeTagOutcome(_code_to_grammar_affixes(tag))
    /\ UNCHANGED tag
    /\ GrammarFrame

NextTag == DecodeTag

SpecTag == InitTag /\ [][NextTag]_vars

-----------------------------------------------------------------------------
(* Two word_to_id calls running in threads on one generator.  Everything up
   to the grammar block works on locals of the call; each
   self.stats[key] += n is a load of the counter followed by a store of the
   loaded value plus n, and the other call may run between the two. *)

Threads == {1, 2}

\* words given to the calls: one syllable, two syllables, a suffix
ThreadWords == {<<"a", "b">>, <<"a", "a", "m", "u">>, <<"a", "b", "p", "i">>}

\* the frame of a call that has not started
NewCall(w, l, g) ==
    [pc |-> "c_start", word |-> w, include_length |-> l, include_grammar |-> g,
     syllables |-> <<>>, id_string |-> <<>>, exc |-> "", loaded |-> 0]

InitThreads ==
    /\ calls \in [Threads -> {NewCall(w, l, g) : w \in ThreadWords,
                                                 l \in BOOLEAN, g \in BOOLEAN}]
    /\ stats = InitStats
    /\ pc = "c_running"
    /\ word = <<>>
    /\ delimiter = <<"-">>
    /\ include_length = TRUE
    /\ include_grammar = TRUE
    /\ id_string = <<>>
    /\ exc = ""
    /\ affix_info = EmptyAnalysis
    /\ reconstructed = <<>>
    /\ grammar_info = <<>>
    /\ rem = <<>>
    /\ found_modality = FALSE
    /\ syllable = <<>>
    /\ syl_code = <<>>
    /\ syl_back = <<>>
    /\ tag = <<>>
    /\ b32_number = 0
    /\ b32_string = <<>>
    /\ b32_back = 0
    /\ chr_arg = ""
    /\ chr_code = 0
    /\ chr_back = ""
    /\ word_count = 0
    /\ collision_prob = None
    /\ split = <<>>

ThreadFrame == UNCHANGED <<word, delimiter, include_length, include_grammar, pc,
                           affix_info, id_string, reconstructed, grammar_info,
                           exc, rem, found_modality, syllable, syl_code,
                           syl_back, tag, b32_number, b32_string, b32_back,
                           chr_arg, chr_code, chr_back, word_count,
                           collision_prob, split>>

\* lines 303-325 of a call with frame f: the locals syllables and id_string,
\* or the exception of _grammar_affixes_to_code
ComputeId(f, syllables, grammar) ==
    IF grammar.exc # ""
    THEN [f EXCEPT !.pc = "c_raised", !.exc = grammar.exc]
    ELSE [f EXCEPT !.pc = IF f.include_grammar THEN "c_load_grammar" ELSE "c_load_words",
                   !.syllables = syllables,
                   !.id_string = (IF f.include_length THEN _to_base32(Len(syllables)) ELSE <<>>)
                                 \o Concat(EncodeAll(syllables)) \o grammar.val]

BeginCall(t) ==
    /\ calls[t].pc = "c_start"
    /\ calls' = [calls EXCEPT ![t] =
                    ComputeId(calls[t],
                              word_to_syllables(calls[t].word, delimiter),
                              IF calls[t].include_grammar
                              THEN _grammar_affixes_to_code(_detect_grammar_affixes(calls[t].word))
                              ELSE Return(<<>>))]
    /\ UNCHANGED stats
    /\ ThreadFrame

\* the load half of self.stats[key] += n
LoadCounter(t, key, at, to) ==
    /\ calls[t].pc = at
    /\ calls' = [calls EXCEPT ![t].loaded = stats[key], ![t].pc = to]
    /\ UNCHANGED stats
    /\ ThreadFrame

\* the value the store half writes back
StoredCounterUnchanged(st, key, loaded, n) == [st EXCEPT ![key] = loaded]

StoredCounter(st, key, loaded, n) == [st EXCEPT ![key] = loaded + n]

\* the store half of self.stats[key] += n
StoreCounter(t, key, n, at, to) ==
    /\ calls[t].pc = at
    /\ stats' = StoredCounter(stats, key, calls[t].loaded, n)
    /\ calls' = [calls EXCEPT ![t].pc = to]
    /\ ThreadFrame

LoadGrammar(t) == LoadCounter(t, "grammar_processed", "c_load_grammar", "c_store_grammar")
StoreGrammar(t) == StoreCounter(t, "grammar_processed", 1, "c_store_grammar", "c_load_words")
LoadWords(t) == LoadCounter(t, "words_processed", "c_load_words", "c_store_words")
StoreWords(t) == StoreCounter(t, "words_processed", 1, "c_store_words", "c_load_syllables")
LoadSyllables(t) == LoadCounter(t, "syllables_processed", "c_load_syllables", "c_store_syllables")
\* the last store is followed by return id_string
StoreSyllables(t) ==
    StoreCounter(t, "syllables_processed", Len(calls[t].syllables),
                 "c_store_syllables", "c_returned")

NextThreads ==
    \E t \in Threads :
        \/ BeginCall(t)
        \/ LoadGrammar(t)
        \/ StoreGrammar(t)
        \/ LoadWords(t)
        \/ StoreWords(t)
        \/ LoadSyllables(t)
        \/ StoreSyllables(t)

SpecThreads == InitThreads /\ [][NextThreads]_vars

-----------------------------------------------------------------------------
(* One generator whose methods are called in any order, as the menu loop of
   interactive_mode does: self.stats lives as long as the generator, the
   arguments and results are locals of the handler and are dropped when it
   returns to the menu *)

\* identifiers typed in for decoding: "ab", "haab", and one with a foreign symbol
TypedIds == {<<"0", "1", "L", "1", "0", "0", "0", "0", "0", "0">>,
             <<"0", "1", "L", "1", "T", "P", "0", "0", "0", "0">>,
             <<"0", "1", "L", "Z", "0", "0", "0", "0", "0", "0">>}

\* word counts typed in for the estimate
TypedCounts == {0, 1024, 1025}

\* the locals of a handler that is not running
NoLocals ==
    /\ word = <<>>
    /\ delimiter = <<"-">>
    /\ include_length = TRUE
    /\ include_grammar = TRUE
    /\ id_string = <<>>
    /\ exc = ""
    /\ affix_info = EmptyAnalysis
    /\ reconstructed = <<>>
    /\ grammar_info = <<>>
    /\ rem = <<>>
    /\ found_modality = FALSE
    /\ syllable = <<>>
    /\ syl_code = <<>>
    /\ syl_back = <<>>
    /\ tag = <<>>
    /\ IdleScalars

InitGenerator ==
    /\ stats = InitStats
    /\ pc = "m_menu"
    /\ NoLocals

\* what no method of the generator assigns
MethodFrame == UNCHANGED <<rem, found_modality, syllable, syl_code, syl_back, tag,
                           b32_number, b32_string, b32_back, chr_arg, chr_code,
                           chr_back, calls>>

CallAnalyze ==
    /\ pc = "m_menu"
    /\ \E w \in StatsWords :
         /\ word' = w
         /\ affix_info' = _detect_grammar_affixes(w)
    /\ pc' = "m_analyzed"
    /\ UNCHANGED <<delimiter, include_length, include_grammar, id_string,
                   reconstructed, grammar_info, exc, stats, word_count,
                   collision_prob, split>>
    /\ MethodFrame

CallWordToSyllables ==
    /\ pc = "m_menu"
    /\ \E w \in StatsWords :
         /\ word' = w
         /\ split' = word_to_syllables(w, delimiter)
    /\ pc' = "m_split"
    /\ UNCHANGED <<delimiter, include_length, include_grammar, id_string,
                   reconstructed, grammar_info, exc, stats, word_count,
                   collision_prob, affix_info>>
    /\ MethodFrame

CallWordToId ==
    /\ pc = "m_menu"
    /\ stats.words_processed < MaxCalls
    /\ \E w \in StatsWords, l \in BOOLEAN, g \in BOOLEAN :
         /\ word' = w
         /\ WordToIdOutcome(delimiter, l, g, word_to_id(w, delimiter, l, g, stats))
    /\ UNCHANGED <<affix_info, reconstructed, grammar_info, word_count,
                   collision_prob, split>>
    /\ MethodFrame

\* id_to_word counting the decoded word in words_processed
CallIdToWordCounting ==
    /\ pc = "m_menu"
    /\ \E id \in TypedIds :
         /\ id_string' = id
         /\ IdToWordOutcome(id_to_word(id, delimiter, include_length, include_grammar))
    /\ stats' = [stats EXCEPT !.words_processed = @ + 1]
    /\ UNCHANGED <<word, delimiter, include_length, include_grammar, affix_info,
                   word_count, collision_prob, split>>
    /\ MethodFrame

CallIdToWord ==
    /\ pc = "m_menu"
    /\ \E id \in TypedIds :
         /\ id_string' = id
         /\ IdToWordOutcome(id_to_word(id, delimiter, include_length, include_grammar))
    /\ UNCHANGED <<word, delimiter, include_length, include_grammar, affix_info,
                   stats, word_count, collision_prob, split>>
    /\ MethodFrame

CallGetCollisionProbability ==
    /\ pc = "m_menu"
    /\ \E n \in TypedCounts :
         /\ word_count' = n
         /\ collision_prob' = Some(get_collision_probability(n))
    /\ pc' = "m_estimated"
    /\ UNCHANGED <<word, delimiter, include_length, include_grammar, affix_info,
                   id_string, reconstructed, grammar_info, exc, stats, split>>
    /\ MethodFrame

\* the handler returns to the menu loop
BackToMenu ==
    /\ pc # "m_menu"
    /\ pc' = "m_menu"
    /\ word' = <<>>
    /\ delimiter' = <<"-">>
    /\ include_length' = TRUE
    /\ include_grammar' = TRUE
    /\ id_string' = <<>>
    /\ exc' = ""
    /\ affix_info' = EmptyAnalysis
    /\ reconstructed' = <<>>
    /\ grammar_info' = <<>>
    /\ word_count' = 0
    /\ collision_prob' = None
    /\ split' = <<>>
    /\ UNCHANGED stats
    /\ MethodFrame

NextGenerator ==
    \/ CallAnalyze
    \/ CallWordToSyllables
    \/ CallWordToId
    \/ CallIdToWord
    \/ CallGetCollisionProbability
    \/ BackToMenu

SpecGenerator == InitGenerator /\ [][NextGenerator]_vars

-----------------------------------------------------------------------------
(* _improved_syllable_split on words whose stems are long enough for the loop
   of _split_stem_into_syllables *)

\* longest generated stem given to the splitter
MaxSplitStemLen == 5

SplitWords == TestWords \cup GeneratedWords(1, MaxSplitStemLen)

InitSplit ==
    /\ word \in SplitWords
    /\ pc = "sp_start"
    /\ delimiter = <<"-">>
    /\ include_length = TRUE
    /\ include_grammar = TRUE
    /\ id_string = <<>>
    /\ exc = ""
    /\ stats = InitStats
    /\ affix_info = EmptyAnalysis
    /\ reconstructed = <<>>
    /\ grammar_info = <<>>
    /\ rem = <<>>
    /\ found_modality = FALSE
    /\ syllable = <<>>
    /\ syl_code = <<>>
    /\ syl_back = <<>>
    /\ tag = <<>>
    /\ IdleScalars

\* the call with its local affix_info (line 229) and the list it returns
ImprovedSyllableSplit ==
    /\ pc = "sp_start"
    /\ affix_info' = IF word = <<>> THEN affix_info ELSE _detect_grammar_affixes(word)
    /\ split' = _improved_syllable_split(word)
    /\ pc' = "sp_done"
    /\ UNCHANGED <<word, delimiter, include_length, include_grammar, id_string,
                   reconstructed, grammar_info, exc, stats, rem, found_modality,
                   syllable, syl_code, syl_back, tag, b32_number, b32_string,
                   b32_back, chr_arg, chr_code, chr_back, word_count,
                   collision_prob, calls>>

NextSplit == ImprovedSyllableSplit

SpecSplit == InitSplit /\ [][NextSplit]_vars

-----------------------------------------------------------------------------
(* Properties *)

AB == <<"a", "b">>
HA == <<"h", "a">>
KA == <<"k", "a">>
TO == <<"t", "o">>
TA == <<"t", "a">>
YE == <<"y", "e">>
Hatotalaye == <<"h", "a", "t", "o", "t", "a", "l", "a", "y", "e">>

OnlyLetters(w) == \A i \in DOMAIN w : w[i] \in Letters

\* the texts of an analysis
TimeText(info) == IF info.time_prefix = None THEN <<>> ELSE info.time_prefix[1].prefix
SuffixText(info) == IF info.suffix = None THEN <<>> ELSE info.suffix[1].suffix
ModalityTexts(info) ==
    [i \in DOMAIN info.modality_prefixes |-> info.modality_prefixes[i].prefix]
NoAffix(info) ==
    info.time_prefix = None /\ info.modality_prefixes = <<>> /\ info.suffix = None

\* the rearrangements of a list
Rearrangements(list) ==
    {[i \in DOMAIN list |-> list[f[i]]] :
        f \in {g \in [DOMAIN list -> DOMAIN list] :
                 \A i, j \in DOMAIN list : g[i] = g[j] => i = j}}

\* r is w with the modality prefixes of w's analysis possibly in another order
SameUpToModalityOrder(r, info) ==
    \E mods \in Rearrangements(ModalityTexts(info)) :
        r = TimeText(info) \o Concat(mods) \o info.stem \o SuffixText(info)

\* the syllables word_to_id split the session's word into
SessionSyllables == word_to_syllables(word, delimiter)

\* a word_to_id call has ended, by returning or by raising
EncodeEnded == pc \in {"encoded", "decoded"} \/ (pc = "raised" /\ id_string = <<>>)

\* the session has ended: id_to_word returned, or one of the two calls raised
SessionEnded == pc \in {"decoded", "raised"}

\* C1: a word over the alphabet whose syllables all have a numeric code below
\* 1024 is returned by id_to_word(word_to_id(w)) under the same delimiter and
\* flags, up to the order of its modality prefixes.
C1_RoundTrip ==
    (/\ pc = "decoded"
     /\ OnlyLetters(word)
     /\ \A i \in DOMAIN SessionSyllables : SyllableNumber(SessionSyllables[i]) < 1024)
    => SameUpToModalityOrder(reconstructed, affix_info)

\* C2: a word of 1 to 3 letters with no affix is returned exactly by
\* decode(encode(w)) with delimiter '-' and both flags enabled.
C2_ShortWordRoundTrip ==
    (/\ SessionEnded
     /\ Len(word) \in 1..3 /\ OnlyLetters(word) /\ NoAffix(affix_info)
     /\ delimiter = <<"-">> /\ include_length /\ include_grammar)
    => (pc = "decoded" /\ reconstructed = word)

\* C3: with both flags enabled the identifier of a word split into n syllables
\* of 1 to 3 letters has length 2 + 2n + 6, and the k-th syllable code (k from
\* 0) is the two characters at offsets 2+2k and 2+2k+1.
C3_FixedWidth ==
    (/\ pc = "encoded" /\ include_length /\ include_grammar
     /\ word # <<>>
     /\ \A i \in DOMAIN SessionSyllables : Len(SessionSyllables[i]) \in 1..3)
    => (/\ Len(id_string) = 2 + 2 * Len(SessionSyllables) + 6
        /\ \A i \in DOMAIN SessionSyllables :
              /\ Len(encode_syllable(SessionSyllables[i])) = 2
              /\ Slice(id_string, 2 + 2 * (i - 1), 2 + 2 * (i - 1) + 2)
                    = encode_syllable(SessionSyllables[i]))

\* what a decoded grammar_info says, as texts
DecodedTimeText(info) == IF info.time_prefix = None THEN <<>> ELSE info.time_prefix[1]
DecodedSuffixText(info) ==
    IF info.suffix_part = None THEN <<>> ELSE grammar_suffixes[info.suffix_part[1]].suffix
DecodedModalitySet(info) ==
    {info.modality_prefixes[i].prefix : i \in DOMAIN info.modality_prefixes}

\* C4: decoding the grammar tag of an analysis (time prefix or none, modality
\* prefixes, suffix or none) yields the same time prefix, the same set of
\* modality prefixes and the same suffix.
C4_TagRoundTrip ==
    pc \in {"g_encoded", "g_decoded", "g_raised"}
    => (/\ pc # "g_raised"
        /\ pc = "g_decoded" =>
              /\ DecodedTimeText(grammar_info) = TimeText(affix_info)
              /\ DecodedModalitySet(grammar_info) =
                    {ModalityTexts(affix_info)[i] : i \in DOMAIN ModalityTexts(affix_info)}
              /\ DecodedSuffixText(grammar_info) = SuffixText(affix_info))

\* the tag the format prescribes for an analysis
ExpectedTimeTag(info) ==
    CASE TimeText(info) = HA -> <<"T", "P">>
      [] TimeText(info) = <<"a", "k", "e">> -> <<"T", "N">>
      [] TimeText(info) = KA -> <<"T", "F">>
      [] OTHER -> <<"0", "0">>

ExpectedMask(info) ==
    (IF \E i \in DOMAIN ModalityTexts(info) : ModalityTexts(info)[i] = TO THEN 1 ELSE 0)
    + (IF \E i \in DOMAIN ModalityTexts(info) : ModalityTexts(info)[i] = <<"t", "e">> THEN 2 ELSE 0)
    + (IF \E i \in DOMAIN ModalityTexts(info) : ModalityTexts(info)[i] = TA THEN 4 ELSE 0)

ExpectedSuffixTag(info) ==
    CASE SuffixText(info) = <<"p", "i">> -> <<"S", "A">>
      [] SuffixText(info) = <<"y", "e", "p", "i">> -> <<"S", "P">>
      [] SuffixText(info) = YE -> <<"S", "V">>
      [] SuffixText(info) = <<"m", "u">> -> <<"S", "D">>
      [] SuffixText(info) = <<"y", "e", "m", "u">> -> <<"S", "G">>
      [] OTHER -> <<"0", "0">>

\* C5: with grammar inclusion enabled, encode returns an identifier whose last
\* 6 characters are the time tag, the 2-character mask of the modality
\* prefixes and the suffix tag of the word's analysis.
C5_GrammarTagAppended ==
    (EncodeEnded /\ include_grammar)
    => (/\ pc # "raised"
        /\ TakeLast(id_string, 6) =
              ExpectedTimeTag(affix_info)
              \o <<"0", base32_alphabet[ExpectedMask(affix_info) + 1]>>
              \o ExpectedSuffixTag(affix_info))

\* C6: a syllable of 1 to 3 letters whose encoded integer is below 1024 is
\* returned by decode_syllable(encode_syllable(s)), and no other such syllable
\* receives the same code.  Every such syllable has at most 2 letters (third
\* conjunct), so the other syllables are sought among those.
C6_SyllableBijection ==
    (/\ pc \in {"s_encoded", "s_decoded", "s_raised"}
     /\ Len(syllable) \in 1..3
     /\ SyllableNumber(syllable) < 1024)
    => (/\ pc # "s_raised"
        /\ pc = "s_decoded" => syl_back = syllable
        /\ Len(syllable) <= 2
        /\ pc = "s_encoded" =>
              \A t \in SeqsUpTo(Letters, 2) :
                  (Len(t) >= 1 /\ t # syllable /\ SyllableNumber(t) < 1024)
                  => encode_syllable(t) # syl_code)

C6_Witness ==
    /\ pc = "s_decoded"
    /\ Len(syllable) = 2
    /\ SyllableNumber(syllable) < 1024
    /\ syl_back = syllable

\* C7 as claimed: analyze("hatotalaye") returns time_prefix "ha",
\* modality_prefixes ["to"], suffix "ye" and stem "tala".
C7_Original ==
    (pc = "a_done" /\ word = Hatotalaye)
    => (/\ TimeText(affix_info) = HA
        /\ ModalityTexts(affix_info) = <<TO>>
        /\ SuffixText(affix_info) = YE
        /\ affix_info.stem = <<"t", "a", "l", "a">>)

\* C7 as amended: analyze("hatotalaye") returns time_prefix "ha",
\* modality_prefixes ["to", "ta"], suffix "ye" and stem "la".
C7_Hatotalaye ==
    (pc = "a_done" /\ word = Hatotalaye)
    => (/\ TimeText(affix_info) = HA
        /\ ModalityTexts(affix_info) = <<TO, TA>>
        /\ SuffixText(affix_info) = YE
        /\ affix_info.stem = <<"l", "a">>)

C7_Witness == pc = "a_done" /\ word = Hatotalaye /\ affix_info.stem = <<"l", "a">>

\* the texts of the time prefixes and of the modality prefixes
TimeTexts == {time_prefixes[i].prefix : i \in DOMAIN time_prefixes}
ModalityPrefixTexts == {modality_prefixes[i].prefix : i \in DOMAIN modality_prefixes}

\* C8: analyze(t + m + s), for a time prefix t, a modality prefix m and a valid
\* stem s, reports time_prefix t and m as the first modality prefix; and
\* analyze("haka" + s) reports time_prefix ha and does not report ka.
C8_TimePrefixFirst ==
    pc = "a_done"
    => (/\ \A t \in TimeTexts, m \in ModalityPrefixTexts :
              (/\ startswith(word, t \o m)
               /\ _is_valid_stem(DropFirst(word, Len(t \o m))))
              => (/\ TimeText(affix_info) = t
                  /\ ModalityTexts(affix_info) # <<>>
                  /\ ModalityTexts(affix_info)[1] = m)
        /\ (/\ startswith(word, HA \o KA)
            /\ _is_valid_stem(DropFirst(word, 4)))
           => (/\ TimeText(affix_info) = HA
               /\ \A i \in DOMAIN ModalityTexts(affix_info) :
                     ModalityTexts(affix_info)[i] # KA
               /\ SuffixText(affix_info) # KA))

C8_Witness ==
    /\ pc = "a_done"
    /\ word = KA \o <<"t", "e">> \o AB
    /\ TimeText(affix_info) = KA
    /\ ModalityTexts(affix_info) = << <<"t", "e">> >>

\* C9: encode("ab") with default flags returns "01", the code of the syllable
\* "ab" and "000000", 10 characters in all, and decode of it returns "ab".
C9_EncodeAb ==
    (/\ word = AB /\ pc \in {"encoded", "decoded", "raised"}
     /\ delimiter = <<"-">> /\ include_length /\ include_grammar)
    => (/\ pc # "raised"
        /\ id_string = <<"0", "1">> \o encode_syllable(AB) \o <<"0", "0", "0", "0", "0", "0">>
        /\ id_string = <<"0", "1", "L", "1", "0", "0", "0", "0", "0", "0">>
        /\ pc = "decoded" => reconstructed = AB)

C9_Witness ==
    /\ word = AB /\ pc = "decoded"
    /\ delimiter = <<"-">> /\ include_length /\ include_grammar
    /\ reconstructed = AB

\* C10: on every word of lowercase letters, words without affixes and words
\* shorter than 2 letters included, analyze ends (the modality loop stops)
\* without raising, and an analysis without affixes has stem = the whole word.
C10_AnalyzeTerminates ==
    /\ <>(pc = "a_done")
    /\ [](exc = "")
    /\ []((pc = "a_done" /\ NoAffix(affix_info)) => affix_info.stem = word)

C10_Witness ==
    /\ pc = "a_done"
    /\ Len(affix_info.modality_prefixes) >= 2
    /\ found_modality = FALSE


\* a stem of at least 2 letters with at least 1 vowel
TwoLettersOneVowel(stem) ==
    /\ Len(stem) >= 2
    /\ \E i \in DOMAIN stem : stem[i] \in {"a", "e", "i", "o", "u", "y"}

\* C11: every analysis returned by analyze either has a stem of at least 2
\* letters and at least 1 vowel, or is the result of the fallback pass on the
\* whole word and has no time prefix and no modality prefix.
C11_ValidStemOrFallback ==
    pc = "a_done"
    => \/ TwoLettersOneVowel(affix_info.stem)
       \/ /\ affix_info = _fallback_detection(word)
          /\ affix_info.time_prefix = None
          /\ affix_info.modality_prefixes = <<>>

C11_Witness ==
    /\ pc = "a_done"
    /\ Len(word) >= 2
    /\ ~TwoLettersOneVowel(affix_info.stem)
    /\ affix_info.time_prefix = None

\* the identifier holds a character outside the 32 symbols of base32_alphabet
HasForeignSymbol(id) == \E i \in DOMAIN id : ~In(id[i], base32_alphabet)

\* C12: id_to_word of an identifier that contains a character outside
\* base32_alphabet (in the length field, in a syllable chunk or in the grammar
\* tag) ends with an error and returns no reconstructed word; stated for the
\* default flags, where the identifier has all three parts.
C12_ForeignSymbolRejected ==
    (/\ pc \in {"d_decoded", "d_raised"}
     /\ include_length /\ include_grammar
     /\ HasForeignSymbol(id_string))
    => pc = "d_raised"

\* C13: every word_to_id call that returns an identifier adds exactly 1 to
\* words_processed, the number of syllables of the word to
\* syllables_processed, and 1 to grammar_processed when include_grammar is
\* true and 0 otherwise; no counter ever decreases, and grammar_processed
\* never exceeds words_processed.
C13_CountersExact ==
    /\ [][pc' = "st_returned" =>
            /\ stats'.words_processed = stats.words_processed + 1
            /\ stats'.syllables_processed =
                  stats.syllables_processed + Len(word_to_syllables(word', delimiter'))
            /\ stats'.grammar_processed =
                  stats.grammar_processed + (IF include_grammar' THEN 1 ELSE 0)]_vars
    /\ [][/\ stats'.words_processed >= stats.words_processed
          /\ stats'.syllables_processed >= stats.syllables_processed
          /\ stats'.grammar_processed >= stats.grammar_processed]_vars
    /\ [](stats.grammar_processed <= stats.words_processed)

C13_Witness ==
    /\ pc = "st_returned"
    /\ stats.words_processed = 2
    /\ stats.grammar_processed = 1
    /\ stats.syllables_processed = 3

\* C14: get_collision_probability(n) returns exactly 1.0 for every n > 1024,
\* n = 1000000 included, and for n <= 1024 the clamp is not applied: the
\* result is the formula with the exponent n(n-1)/2.
C14_ClampAbove1024 ==
    pc = "p_done"
    => /\ word_count > 1024 => collision_prob = <<[expr |-> "1.0", exponent |-> 0]>>
       /\ word_count <= 1024 =>
             /\ collision_prob[1].expr # "1.0"
             /\ 2 * collision_prob[1].exponent = word_count * (word_count - 1)

C14_Witness ==
    /\ pc = "p_done"
    /\ word_count = 1000000
    /\ collision_prob = <<[expr |-> "1.0", exponent |-> 0]>>

\* time prefix, modality prefixes in list order, stem and suffix of an
\* analysis, concatenated without delimiter
Rejoined(info) ==
    TimeText(info) \o Concat(ModalityTexts(info)) \o info.stem \o SuffixText(info)

\* C15: analyze of the string rebuilt from analyze(w) (time prefix, modality
\* prefixes in list order, stem, suffix) yields the same time prefix, the same
\* modality-prefix list, the same suffix and the same stem as analyze(w).
C15_AnalyzeIdempotent ==
    pc = "a_done" => _detect_grammar_affixes(Rejoined(affix_info)) = affix_info

C15_Witness ==
    /\ pc = "a_done"
    /\ affix_info.time_prefix # None
    /\ Len(affix_info.modality_prefixes) = 2
    /\ affix_info.suffix # None
    /\ _detect_grammar_affixes(Rejoined(affix_info)) = affix_info

\* C16: for 0 <= n < 1024, _to_base32(n) is a string of exactly 2 symbols of
\* base32_alphabet, left-padded with '0'; _to_base32(0) is "00".
C16_TwoSymbols ==
    (pc \in {"b_encoded", "b_decoded"} /\ b32_number >= 0 /\ b32_number < 1024)
    => /\ Len(b32_string) = 2
       /\ \A i \in DOMAIN b32_string : In(b32_string[i], base32_alphabet)
       /\ b32_number < 32 => b32_string[1] = "0"
       /\ b32_number = 0 => b32_string = <<"0", "0">>

\* C18: for 0 <= n < 1024, _from_base32(_to_base32(n)) returns n.
C18_FromBase32Inverse ==
    (pc \in {"b_decoded", "b_raised"} /\ b32_number >= 0 /\ b32_number < 1024)
    => (pc = "b_decoded" /\ b32_back = b32_number)

C18_Witness ==
    /\ pc = "b_decoded"
    /\ b32_number = 1023
    /\ b32_string = <<"V", "V">>
    /\ b32_back = 1023

\* the alphabet in sorted order, and its vowels
AlphabetOrder == <<"a", "b", "c", "d", "e", "f", "g", "h", "i", "j", "k", "l", "m",
                   "n", "o", "p", "q", "r", "s", "t", "u", "v", "w", "x", "y", "z">>
VowelLetters == {"a", "e", "i", "o", "u", "y"}

\* how many vowels (consonants) come up to and including letter c
VowelRank(c) ==
    Cardinality({i \in DOMAIN AlphabetOrder :
                    /\ AlphabetOrder[i] \in VowelLetters
                    /\ \E j \in i..Len(AlphabetOrder) : AlphabetOrder[j] = c})
ConsonantRank(c) ==
    Cardinality({i \in DOMAIN AlphabetOrder :
                    /\ AlphabetOrder[i] \notin VowelLetters
                    /\ \E j \in i..Len(AlphabetOrder) : AlphabetOrder[j] = c})

\* C17: _char_to_code maps the 20 consonants to 1..20 and the 6 vowels to
\* 21..26 by sorted position, injectively, and every other character to 0;
\* _code_to_char inverts it on 1..26 and returns '?' outside 1..26.
C17_LetterCodes ==
    /\ pc \in {"l_coded", "l_back"} =>
          /\ (chr_arg \in Letters /\ chr_arg \notin VowelLetters)
                => (chr_code = ConsonantRank(chr_arg) /\ chr_code \in 1..20)
          /\ chr_arg \in VowelLetters
                => (chr_code = 20 + VowelRank(chr_arg) /\ chr_code \in 21..26)
          /\ chr_arg \notin Letters => chr_code = 0
          /\ \A d \in Letters : d # chr_arg => _char_to_code(d) # chr_code
    /\ (pc = "l_back" /\ chr_arg \in Letters) => chr_back = chr_arg
    /\ pc = "l_char" =>
          /\ chr_code \notin 1..26 => chr_back = "?"
          /\ chr_code \in 1..26 =>
                (chr_back \in Letters /\ _char_to_code(chr_back) = chr_code)

C17_Witness ==
    /\ pc = "l_back"
    /\ chr_arg = "y"
    /\ chr_code = 26
    /\ chr_back = "y"

\* the five suffix candidates that word w ends with and whose removal leaves
\* a stem of at least 2 letters with a vowel
FittingSuffixes(w) ==
    {s \in { <<"y", "e", "p", "i">>, <<"y", "e", "m", "u">>, <<"p", "i">>,
             <<"y", "e">>, <<"m", "u">> } :
        /\ endswith(w, s)
        /\ TwoLettersOneVowel(DropLast(w, Len(s)))}

\* C19: in the main detection path the suffix reported is the longest of the
\* five candidates that the remaining word ends with and whose removal leaves
\* a valid stem; none is reported when there is no such candidate, and the
\* analysis holds at most one suffix.  After the suffix step the remaining
\* word before the step is the remaining word followed by the suffix taken.
C19_LongestSuffix ==
    pc = "a_validate"
    => LET before == rem \o SuffixText(affix_info)
       IN  /\ Len(affix_info.suffix) <= 1
           /\ FittingSuffixes(before) = {} => affix_info.suffix = None
           /\ FittingSuffixes(before) # {} =>
                 /\ SuffixText(affix_info) \in FittingSuffixes(before)
                 /\ \A s \in FittingSuffixes(before) : Len(s) <= Len(SuffixText(affix_info))

\* "ab" + "yepi": both yepi and pi fit, and yepi is taken
C19_Witness ==
    /\ pc = "a_validate"
    /\ Cardinality(FittingSuffixes(rem \o SuffixText(affix_info))) = 2
    /\ SuffixText(affix_info) = <<"y", "e", "p", "i">>

\* the syllables of the identifier joined by the delimiter: the word that
\* id_to_word has before it puts the affixes back
DecodedBase ==
    Join(delimiter,
         [k \in DOMAIN Chunks(DropFirst(DropLast(id_string, 6), 2),
                              _from_base32(Slice(DropLast(id_string, 6), 0, 2))) |->
             decode_syllable(Chunks(DropFirst(DropLast(id_string, 6), 2),
                                    _from_base32(Slice(DropLast(id_string, 6), 0, 2)))[k])])

\* p put before x unless x already starts with it; s put after x unless x
\* already ends with it
AddFront(x, p) == IF startswith(x, p) THEN x ELSE p \o x
AddBack(x, s) == IF endswith(x, s) THEN x ELSE x \o s

\* the modality prefixes named by a tag put before x, the last one first
RECURSIVE AddModalities(_, _)
AddModalities(x, mods) ==
    IF mods = <<>> THEN x
    ELSE AddModalities(AddFront(x, mods[Len(mods)].prefix), SubSeq(mods, 1, Len(mods) - 1))

\* C20: the string id_to_word returns for an identifier with a grammar tag
\* starts with the time prefix the tag names and ends with the text of the
\* suffix it names; each modality prefix, the time prefix and the suffix is
\* added only where the current string does not already start (end) with it.
C20_AffixesPutBackOnce ==
    (pc = "d_decoded" /\ include_length /\ include_grammar /\ Len(id_string) >= 6)
    => /\ grammar_info.time_prefix # None
             => startswith(reconstructed, grammar_info.time_prefix[1])
       /\ grammar_info.suffix_part # None
             => endswith(reconstructed, DecodedSuffixText(grammar_info))
       /\ reconstructed =
             AddBack(AddFront(AddModalities(DecodedBase, grammar_info.modality_prefixes),
                              DecodedTimeText(grammar_info)),
                     DecodedSuffixText(grammar_info))

\* "ha-ab" with the tag TP00SA: ha is already in front and is not added, pi
\* is appended
C20_Witness ==
    /\ pc = "d_decoded" /\ include_length /\ include_grammar
    /\ grammar_info.time_prefix = <<HA>>
    /\ grammar_info.suffix_part # None
    /\ startswith(DecodedBase, HA)
    /\ reconstructed = DecodedBase \o <<"p", "i">>

\* the modality field of the tag and the number it decodes to
TagModalityField == Slice(tag, 2, 4)
TagMask == _from_base32(TagModalityField)

\* the sub-sequence of (to, te, ta) selected by bits 1, 2 and 4 of mask
CanonicalModalities(mask) ==
    (IF (mask \div 1) % 2 = 1 THEN << <<"t", "o">> >> ELSE <<>>)
    \o (IF (mask \div 2) % 2 = 1 THEN << <<"t", "e">> >> ELSE <<>>)
    \o (IF (mask \div 4) % 2 = 1 THEN << <<"t", "a">> >> ELSE <<>>)

\* the lists of modality prefixes, in any order and with repetitions, that an
\* analysis can hold
ModalityLists ==
    SeqsUpTo({modality_prefixes[i] : i \in DOMAIN modality_prefixes}, MaxModalities)

\* the modality field _grammar_affixes_to_code writes for the list mods
ModalityFieldOf(mods) ==
    Slice(_grammar_affixes_to_code([EmptyAnalysis EXCEPT !.modality_prefixes = mods]).val,
          2, 4)

\* C21: for a 6-character tag whose modality field is valid base-32,
\* _code_to_grammar_affixes returns as modality prefixes the sub-sequence of
\* (to, te, ta) selected by bits 1, 2 and 4 of the decoded field, in that
\* order and each at most once; for every list of detected prefixes that is
\* encoded to this field, in whatever order, these are the prefixes of the list.
C21_CanonicalModalityOrder ==
    (pc \in {"t_decoded", "t_raised"} /\ ~Raises_from_base32(TagModalityField))
    => /\ pc = "t_decoded"
       /\ [i \in DOMAIN grammar_info.modality_prefixes |->
              grammar_info.modality_prefixes[i].prefix] = CanonicalModalities(TagMask)
       /\ \A mods \in ModalityLists :
             ModalityFieldOf(mods) = TagModalityField
             => DecodedModalitySet(grammar_info) = {mods[i].prefix : i \in DOMAIN mods}

\* the field 05 is what the detected list (ta, to) encodes to, and is decoded
\* as (to, ta)
C21_Witness ==
    /\ pc = "t_decoded"
    /\ TagModalityField = <<"0", "5">>
    /\ ModalityFieldOf(<<modality_prefixes[3], modality_prefixes[1]>>) = TagModalityField
    /\ grammar_info.modality_prefixes[1].prefix = <<"t", "o">>
    /\ grammar_info.modality_prefixes[2].prefix = <<"t", "a">>

\* the time field and the suffix field of the grammar tag of the identifier
IdTimeField == Slice(TakeLast(id_string, 6), 0, 2)
IdSuffixField == Slice(TakeLast(id_string, 6), 4, 6)

KnownTimeFields == {<<"T", "P">>, <<"T", "N">>, <<"T", "F">>}
KnownSuffixFields == {<<"S", "A">>, <<"S", "P">>, <<"S", "V">>, <<"S", "D">>, <<"S", "G">>}

\* C22: when the time field of the tag is not one of TP, TN, TF, decode
\* reports no time prefix and prepends nothing for it; when the suffix field
\* is not one of SA, SP, SV, SD, SG, decode reports no suffix and appends
\* nothing for it; such a field raises no error: a decode that raises has a
\* foreign symbol in the modality field or before the tag.
C22_UnknownFieldIsAbsent ==
    (/\ pc \in {"d_decoded", "d_raised"}
     /\ include_length /\ include_grammar /\ Len(id_string) >= 6
     /\ (IdTimeField \notin KnownTimeFields \/ IdSuffixField \notin KnownSuffixFields))
    => /\ pc = "d_raised" =>
             HasForeignSymbol(Slice(TakeLast(id_string, 6), 2, 4) \o DropLast(id_string, 6))
       /\ (pc = "d_decoded" /\ IdTimeField \notin KnownTimeFields) =>
             /\ grammar_info.time_prefix = None
             /\ reconstructed =
                   AddBack(AddModalities(DecodedBase, grammar_info.modality_prefixes),
                           DecodedSuffixText(grammar_info))
       /\ (pc = "d_decoded" /\ IdSuffixField \notin KnownSuffixFields) =>
             /\ grammar_info.suffix_part = None
             /\ reconstructed =
                   AddFront(AddModalities(DecodedBase, grammar_info.modality_prefixes),
                            DecodedTimeText(grammar_info))

\* the tag Z000SZ behind the word "ab": both fields are unknown and the word
\* comes back as it is
C22_Witness ==
    /\ pc = "d_decoded" /\ include_length /\ include_grammar
    /\ IdTimeField = <<"Z", "0">>
    /\ IdSuffixField = <<"S", "Z">>
    /\ DecodedBase = <<"a", "b">>
    /\ reconstructed = <<"a", "b">>
    /\ grammar_info.time_prefix = None
    /\ grammar_info.suffix_part = None

\* the calls that returned an identifier
ReturnedCalls == {t \in DOMAIN calls : calls[t].pc = "c_returned"}
AllCallsEnded == \A t \in DOMAIN calls : calls[t].pc \in {"c_returned", "c_raised"}
\* a call of the same arguments run alone on a fresh generator
Sequential(f) == word_to_id(f.word, delimiter, f.include_length, f.include_grammar, InitStats)

\* C23: with two word_to_id calls interleaved at the loads and stores of the
\* counters, every call returns the identifier (or raises the exception) of a
\* sequential run, and words_processed never exceeds the calls that stored it;
\* once both calls have ended it is at least 1 when a call returned and at
\* most the number of returned calls.  That it can stay below that number
\* (the lost update) is the state of C23_LostUpdate.
C23_IdsSequentialCounterBounded ==
    /\ \A t \in DOMAIN calls :
          /\ calls[t].pc = "c_returned"
             => Sequential(calls[t]) = [exc |-> "", val |-> calls[t].id_string,
                                        stats |-> Sequential(calls[t]).stats]
          /\ calls[t].pc = "c_raised" => Sequential(calls[t]).exc = calls[t].exc
    /\ stats.words_processed <=
          Cardinality({t \in DOMAIN calls :
                          calls[t].pc \in {"c_load_syllables", "c_store_syllables", "c_returned"}})
    /\ AllCallsEnded
       => /\ stats.words_processed <= Cardinality(ReturnedCalls)
          /\ ReturnedCalls # {} => stats.words_processed >= 1

\* both calls returned their sequential identifiers and one increment of
\* words_processed is lost
C23_LostUpdate ==
    /\ pc = "c_running"
    /\ ReturnedCalls = Threads
    /\ stats.words_processed = 1
    /\ calls[1].word = <<"a", "b">> /\ calls[1].id_string = Sequential(calls[1]).val
    /\ calls[2].word = <<"a", "a", "m", "u">> /\ calls[2].id_string = Sequential(calls[2]).val

\* C24: _detect_grammar_affixes, word_to_syllables, id_to_word and
\* get_collision_probability leave the three counters as they are; a step
\* that changes them is a word_to_id call that returned, and it counts one word.
C24_OnlyWordToIdCounts ==
    [][/\ pc' \in {"m_analyzed", "m_split", "decoded", "m_estimated", "raised", "m_menu"}
          => stats' = stats
       /\ stats' # stats
          => /\ pc = "m_menu" /\ pc' = "encoded"
             /\ stats'.words_processed = stats.words_processed + 1]_vars

\* get_collision_probability has run on a generator that counted two words
\* of three syllables with one grammar tag
C24_Witness ==
    /\ pc = "m_estimated"
    /\ collision_prob # None
    /\ stats = [words_processed |-> 2, syllables_processed |-> 3, grammar_processed |-> 1]

\* C29: a word_to_id call that raises leaves words_processed,
\* syllables_processed and grammar_processed at their values before the call.
C29_RaisingCallCountsNothing ==
    [][pc' = "st_raised" => stats' = stats]_vars

\* word_to_id("abpi") raised KeyError on a generator that had counted "ab"
C29_Witness ==
    /\ pc = "st_raised"
    /\ exc = "KeyError"
    /\ word = <<"a", "b", "p", "i">>
    /\ stats = [words_processed |-> 1, syllables_processed |-> 1, grammar_processed |-> 1]

\* the letters of the word in front of the i-th reported modality prefix
BeforeModality(info, i) ==
    TimeText(info) \o Concat(SubSeq(ModalityTexts(info), 1, i - 1))

\* C25: the analysis of a word w is a partition of w in word order: the time
\* prefix, the modality prefixes in list order, the stem and the suffix,
\* concatenated, are w, on the main path and on the fallback path; so the i-th
\* modality prefix of the list stands in w right behind the time prefix and
\* the modality prefixes listed before it.
C25_PartitionInWordOrder ==
    pc = "a_done"
    => /\ Rejoined(affix_info) = word
       /\ \A i \in DOMAIN affix_info.modality_prefixes :
             startswith(DropFirst(word, Len(BeforeModality(affix_info, i))),
                        affix_info.modality_prefixes[i].prefix)

\* "ta" + "to" + "ab" + "mu": the list is [ta, to], the order in the word
C25_Witness ==
    /\ pc = "a_done"
    /\ word = TA \o TO \o AB \o <<"m", "u">>
    /\ affix_info.time_prefix = None
    /\ ModalityTexts(affix_info) = <<TA, TO>>
    /\ affix_info.stem = AB
    /\ SuffixText(affix_info) = <<"m", "u">>

\* C26: the fallback pass runs (the remaining word tested at step 4 is not a
\* valid stem) exactly when the input word is not a valid stem, that is, has
\* fewer than 2 letters or no vowel; and when it runs it finds no suffix: the
\* analysis has no time prefix, no modality prefix, no suffix, and the whole
\* word as stem.
C26_FallbackOnlyForInvalidWord ==
    /\ pc = "a_validate" => (~_is_valid_stem(rem) <=> ~TwoLettersOneVowel(word))
    /\ (pc = "a_done" /\ ~TwoLettersOneVowel(word))
       => /\ affix_info = _fallback_detection(word)
          /\ NoAffix(affix_info)
          /\ affix_info.stem = word

\* "bbb" has no vowel: the fallback pass has run and kept the whole word
C26_Witness ==
    /\ pc = "a_done"
    /\ word = <<"b", "b", "b">>
    /\ ~_is_valid_stem(rem)
    /\ affix_info = _fallback_detection(word)
    /\ affix_info.stem = <<"b", "b", "b">>

\* a detector whose modality step tests only the validity of the remainder
PlainModalityPass(w) ==
    LET hits == {i \in DOMAIN modality_prefixes :
                    /\ startswith(w, modality_prefixes[i].prefix)
                    /\ TwoLettersOneVowel(DropFirst(w, Len(modality_prefixes[i].prefix)))}
    IN  IF hits = {} THEN None ELSE Some(modality_prefixes[Min(hits)])

RECURSIVE PlainModalityLoop(_, _)
PlainModalityLoop(w, mods) ==
    IF w = <<>> \/ PlainModalityPass(w) = None
    THEN [word |-> w, modality_prefixes |-> mods]
    ELSE PlainModalityLoop(StripPrefix(w, PlainModalityPass(w)),
                           Append(mods, PlainModalityPass(w)[1]))

PlainDetect(w) ==
    DetectAfterTime(w, TimePrefixStep(w),
                    PlainModalityLoop(StripPrefix(w, TimePrefixStep(w)), <<>>))

\* C27: the suffix look-ahead of the modality step does not change the
\* outcome: a modality prefix the remaining word starts with passes the
\* look-ahead if and only if the remainder behind it is a valid stem (at least
\* 2 letters, at least 1 vowel), and the analysis is the one of a detector
\* that tests only the validity of the remainder.
C27_LookAheadIsValidity ==
    /\ pc = "a_modality"
       => \A i \in DOMAIN modality_prefixes :
             startswith(rem, modality_prefixes[i].prefix)
             => (SuffixFound(DropFirst(rem, Len(modality_prefixes[i].prefix)))
                 <=> TwoLettersOneVowel(DropFirst(rem, Len(modality_prefixes[i].prefix))))
    /\ pc = "a_done" => affix_info = PlainDetect(word)

\* "to" + "ab" + "pi": the look-ahead strips pi behind to, and the remainder
\* "abpi" is a valid stem as well
C27_Witness ==
    /\ pc = "a_modality"
    /\ word = TO \o AB \o <<"p", "i">>
    /\ rem = word
    /\ SuffixFoundBySuffixOnly(DropFirst(rem, 2))
    /\ TwoLettersOneVowel(DropFirst(rem, 2))

\* the syllables standing for the time prefix and the modality prefixes
PrefixSyllables(info) ==
    (IF info.time_prefix = None THEN <<>> ELSE <<TimeText(info)>>) \o ModalityTexts(info)

\* C28: for a non-empty word without the delimiter, every syllable returned by
\* _improved_syllable_split is non-empty and has at most 3 letters, and the
\* syllables concatenated in order are the word; a stem of at most 3 letters
\* is one syllable, standing behind the syllables of the prefixes.
C28_SplitKeepsEveryLetter ==
    (pc = "sp_done" /\ word # <<>> /\ ~Contains(word, delimiter))
    => /\ \A i \in DOMAIN split : Len(split[i]) >= 1 /\ Len(split[i]) <= 3
       /\ Concat(split) = word
       /\ Len(affix_info.stem) <= 3
          => /\ Len(split) > Len(PrefixSyllables(affix_info))
             /\ SubSeq(split, 1, Len(PrefixSyllables(affix_info)) + 1)
                   = Append(PrefixSyllables(affix_info), affix_info.stem)
             /\ Concat(SubSeq(split, Len(PrefixSyllables(affix_info)) + 2, Len(split)))
                   = SuffixText(affix_info)

\* "to" + "aabab" + "yepi": a prefix, a stem closed at the vowel pair, at three
\* letters and at its end, and a suffix of three syllables (y is a vowel)
C28_Witness ==
    /\ pc = "sp_done"
    /\ word = TO \o <<"a", "a", "b", "a", "b">> \o <<"y", "e", "p", "i">>
    /\ split = <<TO, <<"a">>, <<"a", "b", "a">>, <<"b">>, <<"y">>, <<"e">>, <<"p", "i">>>>

\* the session's word encoded and decoded with the other setting of
\* include_length
OtherLengthSetting ==
    id_to_word(word_to_id(word, delimiter, ~include_length, include_grammar, InitStats).val,
               delimiter, ~include_length, include_grammar)

\* C30: decoding the identifier encoded without a length field returns the
\* same reconstructed word and the same grammar as decoding the identifier
\* encoded with the length field, for every word, delimiter and
\* include_grammar setting.
C30_LengthFieldOptional ==
    pc = "decoded"
    => OtherLengthSetting = [exc |-> "", word |-> reconstructed,
                             grammar_info |-> grammar_info]

=============================================================================
